---- MODULE Spec2Model ----
(***************************************************************************)
(* Voxel-wise time-series feature engine: the whole-volume passes of       *)
(*   fractal.py   compute_fractal   (docker/build_context/scripts)         *)
(*   hurst.py     compute_hurst     (scripts)                              *)
(*   alff.py      compute_alff      (scripts)                              *)
(*   alff_test.py compute_alff      (scripts)                              *)
(*   hurst_test.py main + compute_hurst (docker/build_context/scripts)     *)
(*                                                                         *)
(* Units.  Signal samples are integers in units of 1e-6, so the variance   *)
(* epsilon 1e-6 of the scripts is 1.  Frequencies are in mHz, the          *)
(* repetition time in s, normalised cut-offs in thousandths of Nyquist     *)
(* (1000 = 1.0).  Feature values are in hundredths (150 = 1.50).           *)
(* The numerical estimators (nolds, the FFT, the regression) are library   *)
(* calls: an estimator call returns one of ReturnValues or raises.         *)
(***************************************************************************)
EXTENDS Integers, Sequences, FiniteSets, TLC

VARIABLES
    prog,            \* which script runs
    method,          \* method / detrend_method argument
    band,            \* bandpass argument and tr, or NoBand
    mask_file,       \* the mask image given by the caller, or NoMask
    data,            \* img.get_fdata(): voxel -> time series
    mask,            \* the mask the script works with
    pc,              \* position in the script
    err,             \* exception that ended the script, or "none"
    fd_map,          \* fd_map / hurst_map / alff_map
    cur,             \* position <<x, y, z>> of the nested loops
    idx,             \* i of  for i, index in enumerate(masked_indices)
    masked_indices,  \* np.argwhere(mask)
    processed_voxels,
    last_update,     \* processed_voxels at the last progress line
    reports,         \* progress lines printed, as processed counts
    diag,            \* per-voxel error lines printed
    warnings,        \* warning lines printed
    filt,            \* the Butterworth band handed to signal.butter
    visited,         \* masked voxels the loop body ran for, in order
    calls,           \* voxel -> number of estimator invocations
    raisedAt,        \* voxels whose estimator call raised into the loop
    caughtAt,        \* voxels where compute_hurst caught a failure itself
    saved,           \* the map written to output_file with nib.save
    saved_norm,      \* the map written to *_norm.nii.gz, if any
    normalize_method,\* alff_test.py: normalize_method argument
    compute_falff,   \* alff_test.py: compute_falff argument
    falff_highband,  \* alff_test.py: falff_highband argument, in mHz
    falff,           \* alff_test.py: the fALFF band in effect, or NoFalff
    falff_map,       \* alff_test.py: falff_map, or <<>> for None
    total_power,     \* alff_test.py: voxel -> total_power of its last estimate
    saved_falff,     \* the map written to *_falff.nii.gz, or <<>>
    roi_prog,        \* hurst_dfa.py or fractal_nolds.py
    roi_outcome,     \* ROI -> what _process does on its series ts_data[:, i]
    roi_task,        \* ROI -> state of its joblib task
    roi_result,      \* ROI -> value its task returned
    roi_order,       \* the ROIs in the order their tasks completed
    hurst_vals,      \* the list Parallel(...)(...) returned, or <<>>
    roi_map,         \* roi_map / fd_map: atlas cell -> value
    roi_pc,          \* position in hurst_roi_map / fractal_roi_map
    hfd_site,        \* which Higuchi function is called
    hfd_slope,       \* np.polyfit(...)[0] of the call
    hfd_pc,          \* "call" or "returned"
    hfd_value,       \* the value the call returned
    hg_site,         \* the Higuchi implementation whose curve lengths are computed
    hg_n,            \* N = len(ts)
    hg_kmax,         \* kmax
    hg_k,            \* the scale k of the iteration
    hg_m,            \* the offset m of the iteration
    hg_lm,           \* m -> L(m, k) of the current k, as sum * num / den
    hg_lk,           \* k -> L(k), as the terms averaged and the divisor
    hg_reads,        \* indices of the series read so far
    hg_dens,         \* normalisation denominators used so far
    hg_pc,           \* "loop", "returned" or the exception raised
    psd_n,           \* len(ts) of the compute_psd_fd call
    psd_nperseg,     \* nperseg handed to signal.welch
    psd_bins,        \* len(freqs) after freqs > 0
    psd_value,       \* what compute_psd_fd returned
    psd_pc,          \* "call", "returned" or the exception raised
    alff_site,       \* alff.py or alff_test.py
    alff_nt,         \* nt, the number of time points
    alff_band,       \* tr, bandpass_low and bandpass_high of the call
    fft_vals,        \* bin -> np.abs(rfft(...)) of the voxel's series
    freq_idx,        \* alff.py: the bins inside the band
    alff_value,      \* the value stored in alff_map[x, y, z]
    alff_pc,         \* "call" or "stored"
    args_force,      \* args.force
    skip_given,      \* --skip_fmriprep as given on the command line
    args_skip_fmriprep,\* args.skip_fmriprep, which main may set itself
    args_skip_features,\* args.skip_feature_extraction
    derivatives_exists,\* fmriprep_output_base.exists()
    layout_ok,       \* BIDSLayout(bids_dir, validate=True) can be built
    home_ok,         \* Path.home() can be determined
    wrapper,         \* the wrapper script: "missing", "locked" (not executable, chmod refused) or "ok"
    subjects,        \* subjects_to_process
    tasks,           \* tasks
    files,           \* (subject, task) -> the three output files
    outputs_checked, \* what check_fmriprep_outputs_exist returned, or "not called"
    snakemake_cmd,   \* flags of the snakemake command that was run, or {}
    stage_log,       \* stage events in the order they happened
    exit_status,     \* exit status of the process, -1 while it runs
    pl_pc,           \* position in main
    perm_home_ok,    \* Path.home() can be determined
    perm_outcomes,   \* strategy -> exit code of its command, or "raises"
    perm_tried,      \* the strategies run so far, in order
    perm_result,     \* "none", "True", "False" or the exception that left the call
    perm_pc,         \* "call", "loop" or "ended"
    reho_site,       \* reho.py or reho_test.py
    mask_given,      \* a mask_file argument was passed
    cluster_size,    \* cluster_size / neighborhood_size
    stale_temp,      \* temp_mask.nii.gz was there before the call
    temp_mask,       \* temp_mask is set (not None)
    temp_exists,     \* the file temp_mask.nii.gz exists
    caller_mask_exists,\* the caller's mask file exists
    nneigh,          \* the -nneigh value of the 3dReHo command, 0 before it is built
    reho_end,        \* how the call ended: "none", "return", "exit 1" or an exception
    reho_pc          \* "which", "mask", "run" or "ended"

mainVars == <<prog, method, band, mask_file, data, mask, pc, err, fd_map, cur,
          idx, masked_indices, processed_voxels, last_update, reports, diag,
          warnings, filt, visited, calls, raisedAt, caughtAt, saved,
          saved_norm, normalize_method, compute_falff, falff_highband, falff,
          falff_map, total_power, saved_falff>>

roiVars == <<roi_prog, roi_outcome, roi_task, roi_result, roi_order,
             hurst_vals, roi_map, roi_pc>>

hfdVars == <<hfd_site, hfd_slope, hfd_pc, hfd_value>>

curveVars == <<hg_site, hg_n, hg_kmax, hg_k, hg_m, hg_lm, hg_lk, hg_reads,
               hg_dens, hg_pc>>

psdVars == <<psd_n, psd_nperseg, psd_bins, psd_value, psd_pc>>

spectrumVars == <<alff_site, alff_nt, alff_band, fft_vals, freq_idx,
                  alff_value, alff_pc>>

pipeVars == <<args_force, skip_given, args_skip_fmriprep, args_skip_features,
              derivatives_exists, layout_ok, home_ok, wrapper, subjects,
              tasks, files, outputs_checked, snakemake_cmd, stage_log,
              exit_status, pl_pc>>

permVars == <<perm_home_ok, perm_outcomes, perm_tried, perm_result, perm_pc>>

rehoVars == <<reho_site, mask_given, cluster_size, stale_temp, temp_mask,
              temp_exists, caller_mask_exists, nneigh, reho_end, reho_pc>>

\* the functions modelled one call at a time
toolVars == <<curveVars, psdVars, spectrumVars, pipeVars, permVars, rehoVars>>

notCurve == <<mainVars, roiVars, hfdVars, psdVars, spectrumVars, pipeVars,
              permVars, rehoVars>>

notPsd == <<mainVars, roiVars, hfdVars, curveVars, spectrumVars, pipeVars,
            permVars, rehoVars>>

notSpectrum == <<mainVars, roiVars, hfdVars, curveVars, psdVars, pipeVars,
                 permVars, rehoVars>>

notPipe == <<mainVars, roiVars, hfdVars, curveVars, psdVars, spectrumVars,
             permVars, rehoVars>>

notPerm == <<mainVars, roiVars, hfdVars, curveVars, psdVars, spectrumVars,
             pipeVars, rehoVars>>

notReho == <<mainVars, roiVars, hfdVars, curveVars, psdVars, spectrumVars,
             pipeVars, permVars>>

vars == <<mainVars, roiVars, hfdVars, toolVars>>

inputs == <<prog, method, band, mask_file, data, normalize_method,
            compute_falff, falff_highband>>

\* the arguments other than the volume
config == <<prog, method, band, mask_file, normalize_method, compute_falff,
            falff_highband>>

falffState == <<falff, falff_map, total_power, saved_falff>>

(***************************************************************************)
(* Bounds of the model                                                     *)
(***************************************************************************)
MaxX == 2
MaxMasked == 2

(***************************************************************************)
(* Program constants                                                       *)
(***************************************************************************)
NaN == -1000000
VarianceEpsilon == 1
ProgressStep == 20
FalffEpsilon == 1
FalffNormCap == 990
FdFloor == 100
ScreeningKmax == 10
WelchCap == 256
MinBins == 5
MinBoldSize == 1000000
DefaultNeighbourhood == 27

NoMask == [shape |-> <<0, 0, 0>>, arr |-> <<>>]
NoBand == [tr |-> -1, low |-> 0, high |-> 0]
NoFilter == [low |-> 0, high |-> 0]
NoHighBand == [low |-> 0, high |-> 0]
NoFalff == [on |-> FALSE, low |-> 0, nlow |-> 0, nhigh |-> 0]

DataShape == <<MaxX, 2, 2>>

Voxels(shape) ==
    (0 .. shape[1] - 1) \X (0 .. shape[2] - 1) \X (0 .. shape[3] - 1)

Zeros(shape) == [v \in Voxels(shape) |-> 0]

(***************************************************************************)
(* Time series and np.std                                                  *)
(***************************************************************************)
RECURSIVE SeqSum(_)
SeqSum(s) == IF s = <<>> THEN 0 ELSE Head(s) + SeqSum(Tail(s))

SeqSumSq(s) == SeqSum([i \in 1 .. Len(s) |-> s[i] * s[i]])

\* n^2 * variance of the series (population variance, as np.std)
ScaledVar(ts) == Len(ts) * SeqSumSq(ts) - SeqSum(ts) * SeqSum(ts)

\* np.std(ts) <= 1e-6
StdLeEps(ts) ==
    ScaledVar(ts) <= VarianceEpsilon * VarianceEpsilon * Len(ts) * Len(ts)

\* np.std(ts) > 0
StdPositive(ts) == ScaledVar(ts) > 0

SeriesSet == { <<0, 0>>, <<0, 2>>, <<0, 4>> }

ReturnValues == {150, NaN}

\* alff_test.py: np.sum(fft_vals[1:]) of the filtered series
AlffValues == {60, 150, NaN}

\* alff_test.py: total_power = np.sum(fft_total[1:]) of the detrended series
TotalPowers == {0, 200}

ValuesOf(p) == IF p = "alff_test" THEN AlffValues ELSE ReturnValues

(***************************************************************************)
(* Inputs                                                                  *)
(***************************************************************************)
NestedProgs == {"fractal", "hurst", "alff"}
IndexedProgs == {"alff_test", "hurst_test"}
TryProgs == {"fractal", "hurst"}

MaskShapes == {DataShape, <<MaxX + 1, 2, 2>>, <<MaxX, 2, 1>>}

RECURSIVE SubsetsUpTo(_, _)
SubsetsUpTo(S, k) ==
    IF k = 0 THEN {{}}
    ELSE LET P == SubsetsUpTo(S, k - 1)
         IN P \cup {T \cup {x} : T \in P, x \in S}

\* mask images of each shape with at most MaxMasked cells set
MaskFiles ==
    UNION { { [shape |-> s, arr |-> [v \in Voxels(s) |-> v \in on]] :
                on \in SubsetsUpTo(Voxels(s), MaxMasked) } :
            s \in MaskShapes }

Fill(c, rest) == [v \in Voxels(DataShape) |-> IF v \in DOMAIN c THEN c[v] ELSE rest]

\* Volumes.  With a mask file: any series where the file is true and a varying
\* series elsewhere.  Without one: at most MaxMasked voxels vary at all.
Volumes(mf) ==
    IF mf = NoMask
    THEN UNION { { Fill(c, <<0, 0>>) : c \in [S -> SeriesSet \ {<<0, 0>>}] } :
                 S \in SubsetsUpTo(Voxels(DataShape), MaxMasked) }
    ELSE { Fill(c, <<0, 4>>) :
             c \in [{v \in Voxels(DataShape) \cap DOMAIN mf.arr : mf.arr[v]}
                      -> SeriesSet] }

MethodsOf(p) ==
    CASE p = "fractal"   -> {"higuchi", "psd", "bogus"}
      [] p = "hurst"     -> {"dfa", "rs", "bogus"}
      [] p = "alff_test" -> {"linear", "none", "bogus"}
      [] OTHER           -> {"n/a"}

\* tr = 2 s puts Nyquist at 250 mHz
BandsOf(p) ==
    CASE p = "alff"       -> { [tr |-> 2, low |-> 10, high |-> 80],
                               [tr |-> 0, low |-> 10, high |-> 80] }
      [] p = "alff_test"  -> { [tr |-> 2, low |-> 10, high |-> 80],
                               [tr |-> 2, low |-> 10, high |-> 250],
                               [tr |-> 2, low |-> 10, high |-> 300],
                               [tr |-> 0, low |-> 10, high |-> 80] }
      [] p = "hurst_test" -> { NoBand,
                               [tr |-> 2, low |-> 10, high |-> 100],
                               [tr |-> 2, low |-> 10, high |-> 250],
                               [tr |-> 2, low |-> 10, high |-> 300],
                               [tr |-> 0, low |-> 10, high |-> 100] }
      [] OTHER            -> {NoBand}

\* nothing of hurst_dfa.py / fractal_nolds.py runs
RoiIdle ==
    /\ roi_prog = "idle"
    /\ roi_outcome = <<>>
    /\ roi_task = <<>>
    /\ roi_result = <<>>
    /\ roi_order = <<>>
    /\ hurst_vals = <<>>
    /\ roi_map = <<>>
    /\ roi_pc = "idle"

\* no Higuchi function is called on its own
HfdIdle ==
    /\ hfd_site = "idle"
    /\ hfd_slope = 0
    /\ hfd_pc = "idle"
    /\ hfd_value = 0

\* alff_test.py and hurst_test.py are run with a mask file (without one they
\* threshold the variance at its 10th percentile).
MainIdle ==
    /\ mask = NoMask
    /\ pc = "start"
    /\ err = "none"
    /\ fd_map = <<>>
    /\ cur = <<0, 0, 0>>
    /\ idx = 0
    /\ masked_indices = <<>>
    /\ processed_voxels = 0
    /\ last_update = 0
    /\ reports = <<>>
    /\ diag = 0
    /\ warnings = {}
    /\ filt = NoFilter
    /\ visited = <<>>
    /\ calls = [v \in Voxels(DataShape) |-> 0]
    /\ raisedAt = {}
    /\ caughtAt = {}
    /\ saved = <<>>
    /\ saved_norm = <<>>
    /\ falff = NoFalff
    /\ falff_map = <<>>
    /\ total_power = <<>>
    /\ saved_falff = <<>>

\* no curve length is being computed
CurveIdle ==
    /\ hg_site = "idle"
    /\ hg_n = 0
    /\ hg_kmax = 0
    /\ hg_k = 0
    /\ hg_m = 0
    /\ hg_lm = <<>>
    /\ hg_lk = <<>>
    /\ hg_reads = {}
    /\ hg_dens = {}
    /\ hg_pc = "idle"

\* compute_psd_fd is not called
PsdIdle ==
    /\ psd_n = 0
    /\ psd_nperseg = 0
    /\ psd_bins = 0
    /\ psd_value = 0
    /\ psd_pc = "idle"

\* no single ALFF value is being computed
SpectrumIdle ==
    /\ alff_site = "idle"
    /\ alff_nt = 0
    /\ alff_band = NoBand
    /\ fft_vals = <<>>
    /\ freq_idx = {}
    /\ alff_value = 0
    /\ alff_pc = "idle"

\* run_combined_pipeline.py is not running
PipeIdle ==
    /\ args_force = FALSE
    /\ skip_given = FALSE
    /\ args_skip_fmriprep = FALSE
    /\ args_skip_features = FALSE
    /\ derivatives_exists = FALSE
    /\ layout_ok = FALSE
    /\ home_ok = FALSE
    /\ wrapper = "idle"
    /\ subjects = <<>>
    /\ tasks = <<>>
    /\ files = <<>>
    /\ outputs_checked = "not called"
    /\ snakemake_cmd = {}
    /\ stage_log = <<>>
    /\ exit_status = -1
    /\ pl_pc = "idle"

\* fix_permissions is not called on its own
PermIdle ==
    /\ perm_home_ok = FALSE
    /\ perm_outcomes = <<>>
    /\ perm_tried = <<>>
    /\ perm_result = "none"
    /\ perm_pc = "idle"

\* compute_reho is not called
RehoIdle ==
    /\ reho_site = "idle"
    /\ mask_given = FALSE
    /\ cluster_size = 0
    /\ stale_temp = FALSE
    /\ temp_mask = FALSE
    /\ temp_exists = FALSE
    /\ caller_mask_exists = FALSE
    /\ nneigh = 0
    /\ reho_end = "none"
    /\ reho_pc = "idle"

ToolsIdle == CurveIdle /\ PsdIdle /\ SpectrumIdle /\ PipeIdle /\ PermIdle /\ RehoIdle

\* nothing but the curve-length computation runs
CurveAlone == RoiIdle /\ HfdIdle /\ PsdIdle /\ SpectrumIdle /\ PipeIdle /\ PermIdle /\ RehoIdle

\* nothing but compute_psd_fd runs
PsdAlone == RoiIdle /\ HfdIdle /\ CurveIdle /\ SpectrumIdle /\ PipeIdle /\ PermIdle /\ RehoIdle

\* nothing but the ALFF of one voxel runs
SpectrumAlone == RoiIdle /\ HfdIdle /\ CurveIdle /\ PsdIdle /\ PipeIdle /\ PermIdle /\ RehoIdle

\* nothing but run_combined_pipeline.py runs
PipeAlone == RoiIdle /\ HfdIdle /\ CurveIdle /\ PsdIdle /\ SpectrumIdle /\ PermIdle /\ RehoIdle

\* nothing but fix_permissions runs
PermAlone == RoiIdle /\ HfdIdle /\ CurveIdle /\ PsdIdle /\ SpectrumIdle /\ PipeIdle /\ RehoIdle

\* nothing but compute_reho runs
RehoAlone == RoiIdle /\ HfdIdle /\ CurveIdle /\ PsdIdle /\ SpectrumIdle /\ PipeIdle /\ PermIdle

InitState == MainIdle /\ RoiIdle /\ HfdIdle /\ ToolsIdle

\* none of the voxel-wise scripts runs
NoPass ==
    /\ prog = "idle"
    /\ method = "none"
    /\ band = NoBand
    /\ mask_file = NoMask
    /\ data = <<>>
    /\ normalize_method = "none"
    /\ compute_falff = FALSE
    /\ falff_highband = NoHighBand
    /\ MainIdle

Init ==
    /\ prog \in NestedProgs \cup IndexedProgs
    /\ method \in MethodsOf(prog)
    /\ band \in BandsOf(prog)
    /\ mask_file \in MaskFiles \cup (IF prog \in NestedProgs THEN {NoMask} ELSE {})
    /\ data \in Volumes(mask_file)
    /\ normalize_method = "none"
    /\ compute_falff = FALSE
    /\ falff_highband = NoHighBand
    /\ InitState

(***************************************************************************)
(* Mask creation and the dimension check                                   *)
(***************************************************************************)
\* mask = np.std(data, axis=3) > 0
VarianceMask(d) ==
    [shape |-> DataShape, arr |-> [v \in Voxels(DataShape) |-> StdPositive(d[v])]]

\* mask.shape[:3] != data.shape[:3]
ShapeMismatch(m) == m.shape # DataShape

\* np.sum(mask)
CountTrue(m) == Cardinality({v \in DOMAIN m.arr : m.arr[v]})

LoadMask ==
    /\ pc = "start"
    /\ prog \in NestedProgs
    /\ LET m == IF mask_file = NoMask THEN VarianceMask(data) ELSE mask_file
       IN /\ mask' = m
          /\ IF ShapeMismatch(m)
                THEN /\ pc' = "failed"
                     /\ err' = "ValueError: mask dimensions"
                     /\ UNCHANGED fd_map
                ELSE /\ pc' = "config"
                     /\ err' = err
                     /\ fd_map' = Zeros(DataShape)
    /\ UNCHANGED <<inputs, roiVars, hfdVars, toolVars, falffState, cur, idx, masked_indices, processed_voxels, last_update,
                   reports, diag, warnings, filt, visited, calls, raisedAt, saved, saved_norm, caughtAt>>

(***************************************************************************)
(* Method selection (fractal.py, hurst.py) and frequency setup (alff.py)   *)
(***************************************************************************)
KnownMethods(p) ==
    CASE p = "fractal" -> {"higuchi", "psd"}
      [] p = "hurst"   -> {"dfa", "rs"}
      [] OTHER         -> {"n/a"}

SelectMethod ==
    /\ pc = "config"
    /\ prog \in TryProgs
    /\ warnings' = IF method \in KnownMethods(prog)
                      THEN warnings
                      ELSE warnings \cup {"unknown method"}
    /\ pc' = "loop"
    /\ cur' = <<0, 0, 0>>
    /\ processed_voxels' = 0
    /\ last_update' = 0
    /\ UNCHANGED <<inputs, roiVars, hfdVars, toolVars, falffState, mask, err, fd_map, idx, masked_indices, reports, diag,
                   filt, visited, calls, raisedAt, saved, saved_norm, caughtAt>>

\* sample_freq = 1. / tr
FrequencyInfo ==
    /\ pc = "config"
    /\ prog = "alff"
    /\ IF band.tr = 0
          THEN /\ pc' = "failed"
               /\ err' = "ZeroDivisionError"
          ELSE /\ pc' = "loop"
               /\ err' = err
    /\ cur' = <<0, 0, 0>>
    /\ processed_voxels' = 0
    /\ last_update' = 0
    /\ UNCHANGED <<inputs, roiVars, hfdVars, toolVars, falffState, mask, fd_map, idx, masked_indices, reports, diag,
                   warnings, filt, visited, calls, raisedAt, saved, saved_norm, caughtAt>>

(***************************************************************************)
(* The nested x, y, z loops                                                *)
(***************************************************************************)
LastCursor(c) ==
    /\ c[1] = DataShape[1] - 1
    /\ c[2] = DataShape[2] - 1
    /\ c[3] = DataShape[3] - 1

NextCursorYInnermost(c) ==
    IF c[2] + 1 < DataShape[2] THEN <<c[1], c[2] + 1, c[3]>>
    ELSE IF c[3] + 1 < DataShape[3] THEN <<c[1], 0, c[3] + 1>>
    ELSE <<c[1] + 1, 0, 0>>

\* for x in range(nx): for y in range(ny): for z in range(nz)
NextCursor(c) ==
    IF c[3] + 1 < DataShape[3] THEN <<c[1], c[2], c[3] + 1>>
    ELSE IF c[2] + 1 < DataShape[2] THEN <<c[1], c[2] + 1, 0>>
    ELSE <<c[1] + 1, 0, 0>>

Advance ==
    /\ cur' = NextCursor(cur)
    /\ pc' = IF LastCursor(cur) THEN "post" ELSE "loop"

\* progress = processed_voxels / total_voxels; progress - last_update >= 0.05
ProgressDue(processed, last, total) ==
    (processed - last) * ProgressStep >= total

Progress(total) ==
    /\ processed_voxels' = processed_voxels + 1
    /\ IF ProgressDue(processed_voxels + 1, last_update, total)
          THEN /\ reports' = Append(reports, processed_voxels + 1)
               /\ last_update' = processed_voxels + 1
          ELSE UNCHANGED <<reports, last_update>>

SkipsNothing(p, ts) == FALSE

\* if np.std(ts) <= 1e-6: continue   (alff.py has no such test)
SkipsConstant(p, ts) == p \in TryProgs /\ StdLeEps(ts)

NestedUnmasked ==
    /\ pc = "loop"
    /\ prog \in NestedProgs
    /\ ~mask.arr[cur]
    /\ Advance
    /\ UNCHANGED <<inputs, roiVars, hfdVars, toolVars, falffState, mask, err, fd_map, idx, masked_indices, processed_voxels,
                   last_update, reports, diag, warnings, filt, visited, calls,
                   raisedAt, saved, saved_norm, caughtAt>>

NestedSkip ==
    /\ pc = "loop"
    /\ prog \in NestedProgs
    /\ mask.arr[cur]
    /\ SkipsConstant(prog, data[cur])
    /\ visited' = Append(visited, cur)
    /\ Advance
    /\ UNCHANGED <<inputs, roiVars, hfdVars, toolVars, falffState, mask, err, fd_map, idx, masked_indices, processed_voxels,
                   last_update, reports, diag, warnings, filt, calls,
                   raisedAt, saved, saved_norm, caughtAt>>

SeriesDemeanedInPlace(p, m, ts) ==
    [i \in 1 .. Len(ts) |-> ts[i] - SeqSum(ts) \div Len(ts)]

\* ts = data[x, y, z, :] is a view of the volume.  What the volume holds at
\* the voxel after the loop body: every step of the body builds a new array
\* (ts - np.mean(ts), x - np.polyval(p, t), signal.detrend, ts * window,
\* signal.filtfilt) or only reads (np.std, rfft, nolds), also when
\* detrend_method = 'none' makes ts_detrended the view itself
SeriesAfterBody(p, m, ts) == ts

\* the volume after the loop body ran for voxel v
VolumeAfterBody(v) == [data EXCEPT ![v] = SeriesAfterBody(prog, method, data[v])]

NestedEstimate ==
    /\ pc = "loop"
    /\ prog \in NestedProgs
    /\ mask.arr[cur]
    /\ ~SkipsConstant(prog, data[cur])
    /\ visited' = Append(visited, cur)
    /\ calls' = [calls EXCEPT ![cur] = @ + 1]
    /\ \E r \in ReturnValues :
          fd_map' = [fd_map EXCEPT ![cur] = r]
    /\ Progress(CountTrue(mask))
    /\ Advance
    /\ data' = VolumeAfterBody(cur)
    /\ UNCHANGED <<config, roiVars, hfdVars, toolVars, falffState, mask, err, idx, masked_indices, diag, warnings, filt,
                   raisedAt, saved, saved_norm, caughtAt>>

OnEstimatorErrorWholeMap(map, v) == [w \in DOMAIN map |-> NaN]

\* except Exception as e: fd_map[x, y, z] = np.nan; print(...)
OnEstimatorError(map, v) == [map EXCEPT ![v] = NaN]

NestedEstimateRaises ==
    /\ pc = "loop"
    /\ prog \in NestedProgs
    /\ mask.arr[cur]
    /\ ~SkipsConstant(prog, data[cur])
    /\ visited' = Append(visited, cur)
    /\ calls' = [calls EXCEPT ![cur] = @ + 1]
    /\ raisedAt' = raisedAt \cup {cur}
    /\ IF prog \in TryProgs
          THEN /\ fd_map' = OnEstimatorError(fd_map, cur)
               /\ diag' = diag + 1
               /\ Progress(CountTrue(mask))
               /\ Advance
               /\ err' = err
          ELSE /\ pc' = "failed"
               /\ err' = "estimator error"
               /\ UNCHANGED <<fd_map, diag, processed_voxels, last_update,
                              reports, cur>>
    /\ data' = VolumeAfterBody(cur)
    /\ UNCHANGED <<config, roiVars, hfdVars, toolVars, falffState, mask, idx, masked_indices, warnings, filt, saved, saved_norm, caughtAt>>

(***************************************************************************)
(* After the loop                                                          *)
(***************************************************************************)
NanToNumKeepsNaN(map) == map

\* np.nan_to_num(fd_map)
NanToNum(map) == [v \in DOMAIN map |-> IF map[v] = NaN THEN 0 ELSE map[v]]

RECURSIVE ISqrtIn(_, _, _)
ISqrtIn(n, lo, hi) ==
    IF lo >= hi THEN lo
    ELSE LET mid == (lo + hi + 1) \div 2
         IN IF mid * mid <= n THEN ISqrtIn(n, mid, hi) ELSE ISqrtIn(n, lo, mid - 1)

\* floor of the square root
ISqrt(n) == ISqrtIn(n, 0, 46340)

RECURSIVE SumOver(_, _)
SumOver(f, S) ==
    IF S = {} THEN 0
    ELSE LET v == CHOOSE w \in S : TRUE IN f[v] + SumOver(f, S \ {v})

SumSqOver(f, S) == SumOver([v \in DOMAIN f |-> f[v] * f[v]], S)

\* n^2 * variance of the cells S of a map
ScaledVarOver(f, S) ==
    Cardinality(S) * SumSqOver(f, S) - SumOver(f, S) * SumOver(f, S)

\* (x - mean) / std over the cells S, in tenths, rounded towards zero
ZTenths(f, S, v) ==
    LET num == Cardinality(S) * f[v] - SumOver(f, S)
        mag == ISqrt((100 * num * num) \div ScaledVarOver(f, S))
    IN IF num < 0 THEN 0 - mag ELSE mag

\* brain_mask = (fd_map > 1.0) & (fd_map < 2.0);  hurst.py: (> 0) & (< 2)
ValidCells(p, map) ==
    {v \in DOMAIN map :
        map[v] # NaN /\ map[v] > (IF p = "fractal" THEN 100 ELSE 0) /\ map[v] < 200}

\* fractal.py / hurst.py: the z-score map, written only when there are valid
\* cells and their standard deviation is positive
NormMap(p, map) ==
    LET S == ValidCells(p, map)
    IN IF S = {} \/ ScaledVarOver(map, S) = 0
       THEN <<>>
       ELSE [v \in DOMAIN map |-> IF v \in S THEN ZTenths(map, S, v) ELSE 0]

\* alff.py: alff_map_norm[mask] = (mask_alff - mean_alff) / std_alff, no guard:
\* a not-a-number among the cells, or a zero deviation, gives not-a-number
ZScoreOverMask(map, S) ==
    IF S = {} THEN [v \in DOMAIN map |-> 0]
    ELSE IF (\E v \in S : map[v] = NaN) \/ ScaledVarOver(map, S) = 0
    THEN [v \in DOMAIN map |-> IF v \in S THEN NaN ELSE 0]
    ELSE [v \in DOMAIN map |-> IF v \in S THEN ZTenths(map, S, v) ELSE 0]

NestedFinish ==
    /\ pc = "post"
    /\ prog \in NestedProgs
    /\ fd_map' = IF prog \in TryProgs THEN NanToNum(fd_map) ELSE fd_map
    /\ IF prog \in TryProgs
          THEN /\ saved' = fd_map'
               /\ saved_norm' = NormMap(prog, fd_map')
          ELSE /\ saved' = ZScoreOverMask(fd_map, {v \in DOMAIN mask.arr : mask.arr[v]})
               /\ saved_norm' = saved_norm
    /\ pc' = "done"
    /\ UNCHANGED <<inputs, roiVars, hfdVars, toolVars, falffState, mask, err, cur, idx, masked_indices, processed_voxels,
                   last_update, reports, diag, warnings, filt, visited, calls,
                   raisedAt, caughtAt>>

(***************************************************************************)
(* alff_test.py and hurst_test.py: no dimension check, np.argwhere(mask)   *)
(***************************************************************************)
LoadMaskIndexed ==
    /\ pc = "start"
    /\ prog \in IndexedProgs
    /\ mask' = mask_file
    /\ fd_map' = Zeros(DataShape)
    /\ falff_map' = IF compute_falff THEN Zeros(DataShape) ELSE <<>>
    /\ pc' = IF prog = "alff_test" THEN "config" ELSE "index"
    /\ UNCHANGED <<inputs, roiVars, hfdVars, toolVars, falff, total_power, saved_falff, err, cur, idx, masked_indices, processed_voxels,
                   last_update, reports, diag, warnings, filt, visited, calls,
                   raisedAt, saved, saved_norm, caughtAt>>

\* nyquist = fs / 2 in mHz, fs = 1 / tr
Nyquist(tr) == 500 \div tr

\* f / nyquist in thousandths
Normalized(f, tr) == f * 2 * tr

\* high_freq > nyquist  /  normalized_high > 1.0
AboveNyquist(b) == Normalized(b.high, b.tr) > 1000

\* if high > nyquist: warn, high = nyquist;  then [low / nyquist, high / nyquist]
ClampedBand(b) ==
    [low  |-> Normalized(b.low, b.tr),
     high |-> IF AboveNyquist(b) THEN 1000 ELSE Normalized(b.high, b.tr)]

ClampWarnings(b) == IF AboveNyquist(b) THEN {"above Nyquist"} ELSE {}

\* signal.butter(3, [low, high], btype='band'): digital critical frequencies
\* must satisfy 0 < Wn < 1, otherwise ValueError
ButterAccepts(f) == 0 < f.low /\ f.high < 1000

\* the outcome of the filter design for a bandpass argument
FilterError(b) ==
    IF b.tr = 0 THEN "ZeroDivisionError"
    ELSE IF ~ButterAccepts(ClampedBand(b)) THEN "ValueError: Wn"
    ELSE "none"

\* bandpass_high after the clamp, in mHz
BandHigh(b) == IF AboveNyquist(b) THEN Nyquist(b.tr) ELSE b.high

\* if falff_low <= bandpass_high
FalffShifted(b, hb) == hb.low <= BandHigh(b)

FalffLowUnshifted(b, hb) == hb.low

\* falff_low = bandpass_high + 0.001 when it does not exceed bandpass_high
FalffLow(b, hb) ==
    IF FalffShifted(b, hb) THEN BandHigh(b) + FalffEpsilon ELSE hb.low

\* falff_low >= nyquist
FalffBeyondNyquist(b, hb) == Normalized(FalffLow(b, hb), b.tr) >= 1000

\* norm_falff_high = min(falff_high / nyquist, 0.99)
NormFalffHigh(b, hb) ==
    IF Normalized(hb.high, b.tr) < FalffNormCap
    THEN Normalized(hb.high, b.tr) ELSE FalffNormCap

\* norm_falff_low >= norm_falff_high
FalffRangeInvalid(b, hb) ==
    Normalized(FalffLow(b, hb), b.tr) >= NormFalffHigh(b, hb)

FalffStaysOn(b, hb) == TRUE

\* compute_falff after the two checks
FalffEnabled(b, hb) == ~FalffBeyondNyquist(b, hb) /\ ~FalffRangeInvalid(b, hb)

\* the fALFF band in effect after the set-up
FalffBand(b, hb) ==
    IF FalffEnabled(b, hb)
    THEN [on |-> TRUE, low |-> FalffLow(b, hb),
          nlow |-> Normalized(FalffLow(b, hb), b.tr),
          nhigh |-> NormFalffHigh(b, hb)]
    ELSE [on |-> FALSE, low |-> FalffLow(b, hb), nlow |-> 0, nhigh |-> 0]

FalffWarnings(b, hb) ==
    (IF FalffShifted(b, hb) THEN {"fALFF overlap"} ELSE {})
    \cup (IF FalffBeyondNyquist(b, hb) THEN {"fALFF beyond Nyquist"}
          ELSE IF FalffRangeInvalid(b, hb) THEN {"fALFF invalid range"}
          ELSE {})

\* signal.butter for the fALFF band, reached only when fALFF stays enabled
FalffFilterError(b, hb) ==
    IF FalffEnabled(b, hb)
       /\ ~ButterAccepts([low |-> FalffBand(b, hb).nlow, high |-> FalffBand(b, hb).nhigh])
    THEN "ValueError: Wn" ELSE "none"

\* the exception, if any, of the set-up before the loop
SetupError ==
    IF FilterError(band) # "none" THEN FilterError(band)
    ELSE IF compute_falff THEN FalffFilterError(band, falff_highband)
    ELSE "none"

DesignFilter ==
    /\ pc = "config"
    /\ prog = "alff_test"
    /\ err' = SetupError
    /\ IF band.tr = 0
          THEN UNCHANGED <<warnings, filt, falff>>
          ELSE /\ filt' = ClampedBand(band)
               /\ IF compute_falff /\ FilterError(band) = "none"
                     THEN /\ falff' = FalffBand(band, falff_highband)
                          /\ warnings' = warnings \cup ClampWarnings(band)
                                            \cup FalffWarnings(band, falff_highband)
                     ELSE /\ falff' = falff
                          /\ warnings' = warnings \cup ClampWarnings(band)
    /\ pc' = IF SetupError = "none" THEN "index" ELSE "failed"
    /\ UNCHANGED <<inputs, roiVars, hfdVars, toolVars, falff_map, total_power, saved_falff, mask, fd_map, cur, idx, masked_indices,
                   processed_voxels, last_update, reports, diag, visited, calls,
                   raisedAt, saved, saved_norm, caughtAt>>

\* the k-th voxel (k from 0) of a shape in C order
Unravel(k, shape) ==
    << k \div (shape[2] * shape[3]), (k \div shape[3]) % shape[2], k % shape[3] >>

\* np.argwhere(mask): the true cells in C order
ArgWhere(m) ==
    SelectSeq([k \in 1 .. Cardinality(DOMAIN m.arr) |-> Unravel(k - 1, m.shape)],
              LAMBDA v : m.arr[v])

MaskedIndices ==
    /\ pc = "index"
    /\ prog \in IndexedProgs
    /\ masked_indices' = ArgWhere(mask)
    /\ idx' = 0
    /\ pc' = IF ArgWhere(mask) = <<>> THEN "post" ELSE "loop"
    /\ UNCHANGED <<inputs, roiVars, hfdVars, toolVars, falffState, mask, err, fd_map, cur, processed_voxels,
                   last_update, reports, diag, warnings, filt, visited, calls,
                   raisedAt, saved, saved_norm, caughtAt>>

\* step = max(1, total_voxels // 20); if i % step == 0: print(...)
StepOf(total) == IF total \div ProgressStep > 1 THEN total \div ProgressStep ELSE 1

IndexedProgress ==
    reports' = IF idx % StepOf(Len(masked_indices)) = 0
                  THEN Append(reports, idx)
                  ELSE reports

IndexedAdvance ==
    /\ idx' = idx + 1
    /\ pc' = IF idx + 1 = Len(masked_indices) THEN "post" ELSE "loop"

Current == masked_indices[idx + 1]

\* alff_test.py: np.std(ts) <= 1e-6 -> continue;  hurst_test.py: only if np.std(ts) > 0
IndexedSkips(p, ts) ==
    IF p = "alff_test" THEN StdLeEps(ts) ELSE ~StdPositive(ts)

\* ts = data[x, y, z, :] with the index outside the volume
IndexedOutOfBounds ==
    /\ pc = "loop"
    /\ prog \in IndexedProgs
    /\ Current \notin Voxels(DataShape)
    /\ IndexedProgress
    /\ visited' = Append(visited, Current)
    /\ pc' = "failed"
    /\ err' = "IndexError"
    /\ UNCHANGED <<inputs, roiVars, hfdVars, toolVars, falffState, mask, fd_map, cur, idx, masked_indices,
                   processed_voxels, last_update, diag, warnings, filt, calls,
                   raisedAt, saved, saved_norm, caughtAt>>

IndexedSkip ==
    /\ pc = "loop"
    /\ prog \in IndexedProgs
    /\ Current \in Voxels(DataShape)
    /\ IndexedSkips(prog, data[Current])
    /\ IndexedProgress
    /\ visited' = Append(visited, Current)
    /\ IndexedAdvance
    /\ UNCHANGED <<inputs, roiVars, hfdVars, toolVars, falffState, mask, err, fd_map, cur, masked_indices,
                   processed_voxels, last_update, diag, warnings, filt, calls,
                   raisedAt, saved, saved_norm, caughtAt>>

\* the detrend methods the loop knows; anything else raises ValueError
DetrendMethods == {"linear", "constant", "polynomial", "none"}

\* what raises before the numerical estimate of one voxel:
\* alff_test.py the unknown detrend method, hurst_test.py the filter design
PerVoxelError(p) ==
    IF p = "alff_test"
    THEN IF method \in DetrendMethods
         THEN "none" ELSE "ValueError: detrend"
    ELSE IF band = NoBand THEN "none" ELSE FilterError(band)

\* compute_hurst applies the bandpass before its try block
HurstFilter ==
    IF prog = "hurst_test" /\ band # NoBand /\ band.tr # 0
    THEN /\ warnings' = warnings \cup ClampWarnings(band)
         /\ filt' = ClampedBand(band)
    ELSE UNCHANGED <<warnings, filt>>

IndexedConfigError ==
    /\ pc = "loop"
    /\ prog \in IndexedProgs
    /\ Current \in Voxels(DataShape)
    /\ ~IndexedSkips(prog, data[Current])
    /\ PerVoxelError(prog) # "none"
    /\ IndexedProgress
    /\ visited' = Append(visited, Current)
    /\ calls' = [calls EXCEPT ![Current] = @ + 1]
    /\ raisedAt' = raisedAt \cup {Current}
    /\ HurstFilter
    /\ pc' = "failed"
    /\ err' = PerVoxelError(prog)
    /\ UNCHANGED <<inputs, roiVars, hfdVars, toolVars, falffState, mask, fd_map, cur, idx, masked_indices,
                   processed_voxels, last_update, diag, saved, saved_norm, caughtAt>>

\* compute_hurst: except Exception: return 0.0
OnHurstError(map, v) == [map EXCEPT ![v] = 0]

\* alff / total_power in thousandths; not-a-number stays not-a-number
Ratio(alff, total) == IF alff = NaN THEN NaN ELSE (alff * 1000) \div total

FalffWriteUnguarded(map, v, alff, total) ==
    [map EXCEPT ![v] = IF total = 0 THEN NaN ELSE Ratio(alff, total)]

\* if total_power > 0: falff_map[x, y, z] = alff_map[x, y, z] / total_power
FalffWrite(map, v, alff, total) ==
    IF total > 0 THEN [map EXCEPT ![v] = Ratio(alff, total)] ELSE map

IndexedEstimate ==
    /\ pc = "loop"
    /\ prog \in IndexedProgs
    /\ Current \in Voxels(DataShape)
    /\ ~IndexedSkips(prog, data[Current])
    /\ PerVoxelError(prog) = "none"
    /\ IndexedProgress
    /\ visited' = Append(visited, Current)
    /\ calls' = [calls EXCEPT ![Current] = @ + 1]
    /\ HurstFilter
    /\ \E r \in ValuesOf(prog) :
          /\ fd_map' = [fd_map EXCEPT ![Current] = r]
          /\ IF falff.on
                THEN \E t \in TotalPowers :
                        /\ total_power' = (Current :> t) @@ total_power
                        /\ falff_map' = FalffWrite(falff_map, Current, r, t)
                ELSE UNCHANGED <<falff_map, total_power>>
    /\ IndexedAdvance
    /\ data' = VolumeAfterBody(Current)
    /\ UNCHANGED <<config, roiVars, hfdVars, toolVars, falff, saved_falff, mask, err, cur, masked_indices, processed_voxels,
                   last_update, diag, raisedAt, saved, saved_norm, caughtAt>>


\* the numerical part raises: nolds inside compute_hurst's try block, or
\* detrend / filtfilt / rfft of alff_test.py, which nothing catches
IndexedEstimateRaises ==
    /\ pc = "loop"
    /\ prog \in IndexedProgs
    /\ Current \in Voxels(DataShape)
    /\ ~IndexedSkips(prog, data[Current])
    /\ PerVoxelError(prog) = "none"
    /\ IndexedProgress
    /\ visited' = Append(visited, Current)
    /\ calls' = [calls EXCEPT ![Current] = @ + 1]
    /\ HurstFilter
    /\ IF prog = "hurst_test"
          THEN /\ fd_map' = OnHurstError(fd_map, Current)
               /\ caughtAt' = caughtAt \cup {Current}
               /\ IndexedAdvance
               /\ UNCHANGED <<err, raisedAt>>
          ELSE /\ pc' = "failed"
               /\ err' = "estimator error"
               /\ raisedAt' = raisedAt \cup {Current}
               /\ UNCHANGED <<fd_map, idx, caughtAt>>
    /\ data' = VolumeAfterBody(Current)
    /\ UNCHANGED <<config, roiVars, hfdVars, toolVars, falffState, mask, cur, masked_indices, processed_voxels,
                   last_update, diag, saved, saved_norm>>

\* brain_mask = alff_map > 0
BrainMask(map) == {v \in DOMAIN map : map[v] # NaN /\ map[v] > 0}

\* alff_std > 0 over the cells S
StdOverPositive(map, S) == S # {} /\ ScaledVarOver(map, S) > 0

\* map[brain_mask] = (map[brain_mask] - mean) / std
ZScoreCells(map, S) ==
    [v \in DOMAIN map |-> IF v \in S THEN ZTenths(map, S, v) ELSE map[v]]

\* alff_mean > 0 over the cells S
MeanPositive(map, S) == S # {} /\ SumOver(map, S) > 0

PercentCellsOfSum(map, S) ==
    [v \in DOMAIN map |-> IF v \in S THEN (100 * map[v]) \div SumOver(map, S)
                                      ELSE map[v]]

\* map[brain_mask] = (map[brain_mask] / mean) * 100, in percent
PercentCells(map, S) ==
    [v \in DOMAIN map |->
        IF v \in S THEN (100 * map[v] * Cardinality(S)) \div SumOver(map, S)
                   ELSE map[v]]

\* the ALFF map after the normalisation step
NormalizedAlff(nm, a) ==
    LET S == BrainMask(a)
    IN IF nm = "zscore" /\ StdOverPositive(a, S) THEN ZScoreCells(a, S)
       ELSE IF nm = "percent" /\ MeanPositive(a, S) THEN PercentCells(a, S)
       ELSE a

\* the fALFF map after the normalisation step: it is normalised over the
\* ALFF map's brain_mask, and only inside the branch that normalised ALFF
NormalizedFalff(nm, a, f) ==
    LET S == BrainMask(a)
    IN IF nm = "zscore" /\ StdOverPositive(a, S) /\ StdOverPositive(f, S)
          THEN ZScoreCells(f, S)
       ELSE IF nm = "percent" /\ MeanPositive(a, S) /\ MeanPositive(f, S)
          THEN PercentCells(f, S)
       ELSE f

\* alff_test.py: normalise in place, save the ALFF map and, when fALFF is still
\* enabled, the fALFF map;  hurst_test.py: save the map as the loop left it
IndexedFinish ==
    /\ pc = "post"
    /\ prog \in IndexedProgs
    /\ fd_map' = IF prog = "alff_test"
                    THEN NormalizedAlff(normalize_method, fd_map) ELSE fd_map
    /\ falff_map' = IF falff.on
                       THEN NormalizedFalff(normalize_method, fd_map, falff_map)
                       ELSE falff_map
    /\ saved' = fd_map'
    /\ saved_falff' = IF falff.on THEN falff_map' ELSE saved_falff
    /\ pc' = "done"
    /\ UNCHANGED <<inputs, roiVars, hfdVars, toolVars, falff, total_power, mask, err, cur, idx, masked_indices,
                   processed_voxels, last_update, reports, diag, warnings, filt,
                   visited, calls, raisedAt, caughtAt, saved_norm>>

(***************************************************************************)
(* Properties                                                              *)
(***************************************************************************)
MaskLoaded == mask # NoMask

\* the cells of the working mask that are true
MaskedSet == {v \in DOMAIN mask.arr : mask.arr[v]}

VisitedSet == {visited[i] : i \in 1 .. Len(visited)}

LexLess(p, q) ==
    \/ p[1] < q[1]
    \/ p[1] = q[1] /\ p[2] < q[2]
    \/ p[1] = q[1] /\ p[2] = q[2] /\ p[3] < q[3]

NoCellWritten == \A v \in DOMAIN fd_map : fd_map[v] = 0

NoEstimatorCall == \A v \in DOMAIN calls : calls[v] = 0

\* the enumerated configuration value is one the script documents
ValidMethod ==
    CASE prog \in TryProgs   -> method \in KnownMethods(prog)
      [] prog = "alff_test"  -> method \in DetrendMethods
      [] OTHER               -> TRUE

\* the sampling interval is positive
ValidInterval == band = NoBand \/ band.tr > 0

\* the sampling interval is positive and the filter design takes the band
BandAccepted == band = NoBand \/ FilterError(band) = "none"

\* C1: an estimator failure at one masked voxel sets that voxel's cell to
\* not-a-number, records a diagnostic and lets the pass go on: the pass is not
\* aborted, in every script that drives an estimator over the volume.
C1_FailureContained ==
    \A v \in raisedAt :
        /\ pc # "failed"
        /\ pc \in {"loop", "post"} => fd_map[v] = NaN
        /\ diag = Cardinality(raisedAt)

\* C2: a masked voxel whose standard deviation is at or below 1e-6 keeps its
\* cell at 0 and never reaches the estimator; when the pass is done every other
\* masked voxel has had exactly one estimator call.
C2_ConstantSkipped ==
    MaskLoaded =>
        \A v \in MaskedSet \cap Voxels(DataShape) :
            /\ StdLeEps(data[v]) => calls[v] = 0 /\ (fd_map # <<>> => fd_map[v] = 0)
            /\ (pc = "done" /\ ~StdLeEps(data[v])) => calls[v] = 1

C4_PassNeverAborts ==
    (MaskLoaded /\ ~ShapeMismatch(mask) /\ ValidMethod /\ BandAccepted)
        => pc # "failed"

\* C5: with a mask that is false everywhere (and a positive sampling interval)
\* the pass does not fail, never calls the estimator, and hands back a map that
\* is 0 in every cell.
C5_EmptyMask ==
    (MaskLoaded /\ ~ShapeMismatch(mask) /\ MaskedSet = {} /\ ValidInterval) =>
        /\ pc # "failed"
        /\ NoEstimatorCall
        /\ pc = "done" => saved = Zeros(DataShape)

\* C6: a mask whose shape differs from the volume's first three dimensions
\* makes the pass fail before any estimator is called or any cell written: such
\* a pass never runs to its end.
C6_DimensionMismatchFatal ==
    (MaskLoaded /\ ShapeMismatch(mask)) =>
        /\ NoEstimatorCall
        /\ NoCellWritten
        /\ pc # "done"

\* C7: an unknown method or detrend method is fatal before the loop: no
\* estimator is called, no cell is written and the pass never runs to its end,
\* also when every masked voxel is constant.
C7_InvalidConfigFatal ==
    ~ValidMethod =>
        /\ NoEstimatorCall
        /\ NoCellWritten
        /\ pc # "done"

\* C8 as stated: a cell that became not-a-number because its estimator failed
\* is still not-a-number in the map the pass hands back.
C8_NaNHandedBack ==
    pc = "done" => \A v \in raisedAt : saved[v] = NaN

\* C8 as amended: inside the voxel loop a not-a-number cell is never converted,
\* it stays not-a-number until the loop has ended; after the loop
\* compute_fractal and compute_hurst replace every not-a-number by 0 before
\* they save, so their saved map holds none, while hurst_test.py, and
\* alff_test.py without normalisation, save the map as the loop left it.
C8_NaNKeptInLoop ==
    \A v \in DOMAIN fd_map :
        (fd_map[v] = NaN /\ pc' # "done") => fd_map'[v] = NaN

C8_SavedMap ==
    pc = "done" =>
        /\ prog \in TryProgs => \A v \in DOMAIN saved : saved[v] # NaN
        /\ prog \in TryProgs =>
              \A v \in DOMAIN saved : saved[v] # 0 => calls[v] = 1 /\ v \notin raisedAt
        /\ prog \in IndexedProgs => saved = fd_map

C8_NaNConvertedAfterLoop == [][C8_NaNKeptInLoop]_vars /\ []C8_SavedMap

C8_Witness ==
    /\ pc = "done"
    /\ prog \in TryProgs
    /\ \E v \in raisedAt : saved[v] = 0
    /\ \E v \in DOMAIN saved : saved[v] = 150

\* C9: the per-series Hurst estimate of hurst_test.py never raises into the
\* loop: every internal failure, the filter design included, gives 0.0.
C9_HurstNeverRaises ==
    prog = "hurst_test" =>
        /\ raisedAt = {}
        /\ \A v \in caughtAt : fd_map[v] = 0

\* C10: once the bandpass has been handed to the filter design: if the upper
\* cut-off is above Nyquist the filter is built at normalised cut-off 1.0 with
\* a warning and without an error; otherwise the cut-off is the requested one
\* and no warning is printed.
C10_NyquistClamp ==
    filt # NoFilter =>
        IF AboveNyquist(band)
        THEN /\ filt.high = 1000
             /\ "above Nyquist" \in warnings
             /\ err \notin {"ValueError: Wn", "ZeroDivisionError"}
        ELSE /\ filt.high = Normalized(band.high, band.tr)
             /\ "above Nyquist" \notin warnings

\* the fALFF set-up of alff_test.py has run
FalffSetUp ==
    /\ prog = "alff_test"
    /\ compute_falff
    /\ pc \notin {"start", "config"}
    /\ FilterError(band) = "none"

FalffInvalid ==
    LET nlow  == falff.low * 2 * band.tr
        nhigh == falff_highband.high * 2 * band.tr
    IN nlow >= (IF nhigh > 1000 THEN 1000 ELSE nhigh)

C13_FalffRatio ==
    (prog = "alff_test" /\ pc \in {"loop", "post"}) =>
        \A v \in DOMAIN total_power :
            IF total_power[v] > 0
            THEN IF fd_map[v] = NaN
                 THEN falff_map[v] = NaN
                 ELSE /\ falff_map[v] * total_power[v] <= fd_map[v] * 1000
                      /\ fd_map[v] * 1000 < (falff_map[v] + 1) * total_power[v]
            ELSE falff_map[v] = 0

C13_Witness ==
    /\ prog = "alff_test"
    /\ pc = "post"
    /\ \E v, w \in DOMAIN total_power :
          /\ total_power[v] = 200 /\ fd_map[v] = 150 /\ falff_map[v] = 750
          /\ total_power[w] = 0 /\ fd_map[w] = 60 /\ falff_map[w] = 0

\* a step of the voxel loop changes no cell but that of the voxel it visits,
\* which is masked and was not visited before
C14_OnlyOwnCell ==
    pc = "loop" =>
        /\ \A v \in DOMAIN fd_map :
              fd_map'[v] # fd_map[v] =>
                  /\ visited' = Append(visited, v)
                  /\ v \in MaskedSet
                  /\ v \notin VisitedSet
        /\ \A v \in DOMAIN falff_map :
              falff_map'[v] # falff_map[v] =>
                  /\ visited' = Append(visited, v)
                  /\ v \notin VisitedSet

\* no voxel is visited twice, no cell is assigned twice, and the cells whose
\* mask is false hold 0 during the pass and in the saved map
C14_UnmaskedStayZero ==
    /\ Cardinality(VisitedSet) = Len(visited)
    /\ \A v \in DOMAIN calls : calls[v] <= 1
    /\ \A v \in DOMAIN fd_map : v \notin MaskedSet => fd_map[v] = 0
    /\ \A v \in DOMAIN saved : v \notin MaskedSet => saved[v] = 0

\* C14: during the pass each cell of the map is written at most once, the
\* write for voxel (x, y, z) touches only cell (x, y, z), and a cell whose mask
\* is false is never written and keeps 0.
C14_OneWritePerCell == [][C14_OnlyOwnCell]_vars /\ []C14_UnmaskedStayZero

C14_Witness ==
    /\ pc = "post"
    /\ Len(visited) = 2
    /\ \E v \in raisedAt : fd_map[v] = NaN
    /\ \E v \in DOMAIN fd_map : fd_map[v] = 150
    /\ \E v \in DOMAIN fd_map : v \notin MaskedSet /\ fd_map[v] = 0

\* C16: no step of a pass changes the volume, the mask image or, once it is
\* loaded, the mask: they keep their initial values.
C16_InputsNotMutated ==
    [][ /\ data' = data
        /\ mask_file' = mask_file
        /\ MaskLoaded => mask' = mask ]_vars

C16_Witness ==
    /\ prog = "alff_test"
    /\ method = "none"
    /\ pc = "done"
    /\ \E v \in DOMAIN calls : calls[v] = 1 /\ saved[v] = 150

\* C18: the z-score is taken over the valid cells only and rewrites only
\* them; the other cells are 0 (or untouched); with no valid cell, or with a
\* zero standard deviation over the valid cells, no cell is rewritten and
\* nothing is divided by zero.
C18_ZScoreGuarded ==
    pc = "done" =>
        /\ prog \in TryProgs =>
              LET S == ValidCells(prog, fd_map)
              IN /\ saved = fd_map
                 /\ IF S = {} \/ ScaledVarOver(fd_map, S) = 0
                       THEN saved_norm = <<>>
                       ELSE \A v \in DOMAIN saved_norm :
                               v \notin S => saved_norm[v] = 0
        /\ prog = "alff" =>
              LET S == MaskedSet
              IN /\ \A v \in DOMAIN saved : v \notin S => saved[v] = 0
                 /\ ((\A v \in S : fd_map[v] # NaN) /\ ScaledVarOver(fd_map, S) = 0)
                       => \A v \in S : saved[v] \in {fd_map[v], 0}

\* the cell x of a map over n valid cells with sum s was rewritten to
\* 100 * x / mean, to the rounding of the model
IsPercentOfMean(y, x, n, s) == y * s <= 100 * x * n /\ 100 * x * n < (y + 1) * s

PercentStep(old, new, S) ==
    IF S # {} /\ SumOver(old, S) > 0
    THEN \A v \in DOMAIN old :
            IF v \in S
            THEN IsPercentOfMean(new[v], old[v], Cardinality(S), SumOver(old, S))
            ELSE new[v] = old[v]
    ELSE new = old

\* C19: the normalisation step with method 'percent' rewrites exactly the
\* brain_mask cells of the ALFF map to 100 * x / mean when the mean over them
\* is > 0 and changes nothing otherwise; the same holds of the fALFF map on
\* its own mean.
C19_PercentStep ==
    (prog = "alff_test" /\ normalize_method = "percent"
        /\ pc = "post" /\ pc' = "done") =>
        /\ PercentStep(fd_map, fd_map', BrainMask(fd_map))
        /\ falff.on => PercentStep(falff_map, falff_map', BrainMask(fd_map))

C19_PercentOfMean == [][C19_PercentStep]_vars

C19_Witness ==
    /\ prog = "alff_test"
    /\ normalize_method = "percent"
    /\ pc = "done"
    /\ falff.on
    /\ \E v, w \in DOMAIN saved :
          /\ saved[v] = 57 /\ saved[w] = 142
          /\ saved_falff[v] = 57 /\ saved_falff[w] = 142

\* C17: progress is reported at 5% increments of the masked voxels: the
\* reported values are strictly increasing, there are at most 20 reports in
\* a pass, and no advance of 5% or more is left unreported by a check.
C17_FivePercentReports ==
    LET total == Len(masked_indices)
        nested == prog \in NestedProgs
        seen == IF nested THEN processed_voxels ELSE idx - 1
        last == IF nested THEN last_update
                ELSE IF reports = <<>> THEN 0 ELSE reports[Len(reports)]
    IN  roi_pc = "idle" /\ hfd_pc = "idle" /\ mask = NoMask /\ pc \in {"loop", "post"} =>
           /\ \A i \in 1 .. Len(reports) - 1 : reports[i] < reports[i + 1]
           /\ Len(reports) <= ProgressStep
           /\ seen > last => (seen - last) * ProgressStep < total

Next ==
    \/ LoadMask
    \/ SelectMethod
    \/ FrequencyInfo
    \/ NestedUnmasked
    \/ NestedSkip
    \/ NestedEstimate
    \/ NestedEstimateRaises
    \/ NestedFinish
    \/ LoadMaskIndexed
    \/ DesignFilter
    \/ MaskedIndices
    \/ IndexedOutOfBounds
    \/ IndexedSkip
    \/ IndexedConfigError
    \/ IndexedEstimate
    \/ IndexedEstimateRaises
    \/ IndexedFinish

(***************************************************************************)
(* alff_test.py with fALFF and normalisation requested                     *)
(***************************************************************************)
\* tr = 2 s puts Nyquist at 250 mHz, tr = 4 s at 125 mHz
FalffRunBands ==
    { [tr |-> 2, low |-> 10, high |-> 80],
      [tr |-> 2, low |-> 10, high |-> 248],
      [tr |-> 4, low |-> 10, high |-> 80] }

FalffRunHighBands ==
    { [low |-> 20, high |-> 250],
      [low |-> 80, high |-> 250],
      [low |-> 100, high |-> 250],
      [low |-> 130, high |-> 250],
      [low |-> 100, high |-> 90] }

InitAlffTest ==
    /\ prog = "alff_test"
    /\ method = "linear"
    /\ band \in FalffRunBands
    /\ mask_file \in {m \in MaskFiles : m.shape = DataShape}
    /\ data = Fill(<<>>, <<0, 4>>)
    /\ normalize_method \in {"none", "zscore", "percent"}
    /\ compute_falff \in BOOLEAN
    /\ falff_highband \in IF compute_falff THEN FalffRunHighBands ELSE {NoHighBand}
    /\ InitState

NextAlffTest ==
    \/ LoadMaskIndexed
    \/ DesignFilter
    \/ MaskedIndices
    \/ IndexedEstimate
    \/ IndexedEstimateRaises
    \/ IndexedFinish

SpecAlffTest == InitAlffTest /\ [][NextAlffTest]_vars

(***************************************************************************)
(* The progress lines of a pass over many masked voxels                    *)
(***************************************************************************)
MaxTotal == 22

\* the masked voxels of a pass, in the order the loop meets them
MaskedRun(n) == [i \in 1 .. n |-> <<i - 1, 0, 0>>]

\* the loop is entered with total_voxels masked voxels and the counters at 0
InitProgress ==
    /\ prog \in NestedProgs \cup IndexedProgs
    /\ method = "none"
    /\ band = NoBand
    /\ mask_file = NoMask
    /\ data = <<>>
    /\ normalize_method = "none"
    /\ compute_falff = FALSE
    /\ falff_highband = NoHighBand
    /\ mask = NoMask
    /\ masked_indices \in {MaskedRun(n) : n \in 0 .. MaxTotal}
    /\ pc = IF masked_indices = <<>> THEN "post" ELSE "loop"
    /\ err = "none"
    /\ fd_map = <<>>
    /\ cur = <<0, 0, 0>>
    /\ idx = 0
    /\ processed_voxels = 0
    /\ last_update = 0
    /\ reports = <<>>
    /\ diag = 0
    /\ warnings = {}
    /\ filt = NoFilter
    /\ visited = <<>>
    /\ calls = <<>>
    /\ raisedAt = {}
    /\ caughtAt = {}
    /\ saved = <<>>
    /\ saved_norm = <<>>
    /\ falff = NoFalff
    /\ falff_map = <<>>
    /\ total_power = <<>>
    /\ saved_falff = <<>>
    /\ RoiIdle
    /\ HfdIdle
    /\ ToolsIdle

progressVars == <<idx, pc, processed_voxels, last_update, reports>>

passVars == <<inputs, roiVars, hfdVars, toolVars, falffState, mask, err, fd_map, cur,
              masked_indices, diag, warnings, filt, visited, calls, raisedAt,
              caughtAt, saved, saved_norm>>

\* if np.std(ts) <= 1e-6: continue   -- the voxel is not counted
ProgressConstantVoxel ==
    /\ pc = "loop"
    /\ prog \in TryProgs
    /\ IndexedAdvance
    /\ UNCHANGED <<passVars, processed_voxels, last_update, reports>>

\* a masked voxel of the loop nest: processed_voxels += 1, then the 5% test
ProgressNestedVoxel ==
    /\ pc = "loop"
    /\ prog \in NestedProgs
    /\ Progress(Len(masked_indices))
    /\ IndexedAdvance
    /\ UNCHANGED passVars

\* an iteration of for i, index in enumerate(masked_indices)
ProgressIndexedVoxel ==
    /\ pc = "loop"
    /\ prog \in IndexedProgs
    /\ IndexedProgress
    /\ IndexedAdvance
    /\ UNCHANGED <<passVars, processed_voxels, last_update>>

NextProgress ==
    \/ ProgressConstantVoxel
    \/ ProgressNestedVoxel
    \/ ProgressIndexedVoxel

SpecProgress == InitProgress /\ [][NextProgress]_vars

(***************************************************************************)
(* hurst_dfa.py and fractal_nolds.py: one joblib task per ROI               *)
(***************************************************************************)
NRois == 3
NJobs == 2

Rois == 1 .. NRois

\* atlas_data: cell 0 is background (label 0), every label has two cells
AtlasCells == 0 .. 2 * NRois

AtlasData == [c \in AtlasCells |-> (c + 1) \div 2]

\* labels = np.unique(atlas_data); labels = labels[labels != 0]
Labels == {AtlasData[c] : c \in AtlasCells} \ {0}

\* position (from 1) of a label in the sorted array np.unique returns
LabelIndex(lab) == Cardinality({l \in Labels : l < lab}) + 1

\* what _process(i) meets: np.var(ts) < min_var, an estimator that raises,
\* or an estimate
RoiOutcomes == {"low variance", "raises", "estimate 1.20", "estimate 1.50"}

Estimate(o) == IF o = "estimate 1.20" THEN 120 ELSE 150

\* _process of fractal_nolds.py has no try: the exception leaves the task
ProcessRaises(p, o) == p = "fractal_nolds" /\ o = "raises"

\* the value _process(i) returns
Process(p, o) ==
    IF o \in {"low variance", "raises"} THEN NaN ELSE Estimate(o)

InitRoi ==
    /\ NoPass
    /\ HfdIdle
    /\ ToolsIdle
    /\ roi_prog \in {"hurst_dfa", "fractal_nolds"}
    /\ roi_outcome \in [Rois -> RoiOutcomes]
    /\ roi_task = [i \in Rois |-> "pending"]
    /\ roi_result = [i \in Rois |-> 0]
    /\ roi_order = <<>>
    /\ hurst_vals = <<>>
    /\ roi_map = <<>>
    /\ roi_pc = "parallel"

Running == {i \in Rois : roi_task[i] = "running"}

\* joblib hands the delayed calls to free workers in the order of range(n_rois)
Dispatch(i) ==
    /\ roi_pc = "parallel"
    /\ roi_task[i] = "pending"
    /\ \A j \in Rois : j < i => roi_task[j] # "pending"
    /\ Cardinality(Running) < NJobs
    /\ roi_task' = [roi_task EXCEPT ![i] = "running"]
    /\ UNCHANGED <<mainVars, hfdVars, toolVars, roi_prog, roi_outcome, roi_result,
                   roi_order, hurst_vals, roi_map, roi_pc>>

\* a worker finishes _process(i); its return value is that task's result
ProcessReturns(i) ==
    /\ roi_pc = "parallel"
    /\ roi_task[i] = "running"
    /\ ~ProcessRaises(roi_prog, roi_outcome[i])
    /\ roi_task' = [roi_task EXCEPT ![i] = "done"]
    /\ roi_result' = [roi_result EXCEPT ![i] = Process(roi_prog, roi_outcome[i])]
    /\ roi_order' = Append(roi_order, i)
    /\ UNCHANGED <<mainVars, hfdVars, toolVars, roi_prog, roi_outcome, hurst_vals,
                   roi_map, roi_pc>>

\* the exception of a task is re-raised by Parallel(...)(...); no map is built
ProcessFails(i) ==
    /\ roi_pc = "parallel"
    /\ roi_task[i] = "running"
    /\ ProcessRaises(roi_prog, roi_outcome[i])
    /\ roi_task' = [roi_task EXCEPT ![i] = "failed"]
    /\ roi_pc' = "failed"
    /\ UNCHANGED <<mainVars, hfdVars, toolVars, roi_prog, roi_outcome, roi_result,
                   roi_order, hurst_vals, roi_map>>

GatheredInCompletionOrder == [k \in Rois |-> roi_result[roi_order[k]]]

\* Parallel returns the results as a list in the order of the calls
Gathered == [k \in Rois |-> roi_result[k]]

Gather ==
    /\ roi_pc = "parallel"
    /\ \A i \in Rois : roi_task[i] = "done"
    /\ hurst_vals' = Gathered
    /\ roi_pc' = "build"
    /\ UNCHANGED <<mainVars, hfdVars, toolVars, roi_prog, roi_outcome, roi_task,
                   roi_result, roi_order, roi_map>>

\* roi_map = zeros; for idx, lab in enumerate(labels):
\*     roi_map[atlas_data == lab] = hurst_vals[idx]
RoiMapOf(vals) ==
    [c \in AtlasCells |->
        IF AtlasData[c] \in Labels THEN vals[LabelIndex(AtlasData[c])] ELSE 0]

BuildRoiMap ==
    /\ roi_pc = "build"
    /\ roi_map' = RoiMapOf(hurst_vals)
    /\ roi_pc' = "done"
    /\ UNCHANGED <<mainVars, hfdVars, toolVars, roi_prog, roi_outcome, roi_task,
                   roi_result, roi_order, hurst_vals>>

NextRoi ==
    \/ \E i \in Rois : Dispatch(i)
    \/ \E i \in Rois : ProcessReturns(i)
    \/ \E i \in Rois : ProcessFails(i)
    \/ Gather
    \/ BuildRoiMap

SpecRoi == InitRoi /\ [][NextRoi]_vars

\* the map of a pass that calls _process on ROI 1, 2, ... one after the other
RECURSIVE SequentialVals(_, _)
SequentialVals(i, acc) ==
    IF i > NRois THEN acc
    ELSE SequentialVals(i + 1, Append(acc, Process(roi_prog, roi_outcome[i])))

MaxSlopeTenths == 25

\* np.polyfit(...)[0] in hundredths, or not a number
Slopes == {10 * k : k \in -MaxSlopeTenths .. MaxSlopeTenths} \cup {NaN}

InitHiguchi ==
    /\ NoPass
    /\ RoiIdle
    /\ ToolsIdle
    /\ hfd_site \in {"extract_fractal_dimension", "compute_higuchi_fd"}
    /\ hfd_slope \in Slopes
    /\ hfd_pc = "call"
    /\ hfd_value = 0

\* x > y of two floats: False when either is not a number
Greater(x, y) == x # NaN /\ y # NaN /\ x > y

\* Python's max(a, b): b only if b > a
PyMax(a, b) == IF Greater(b, a) THEN b ELSE a

\* fd = -np.polyfit(log_k, log_length, 1)[0]
RegressionFd(slope) == IF slope = NaN THEN NaN ELSE -slope

ScreeningFdUnclamped(slope) == RegressionFd(slope)

\* return max(1.0, fd)
ScreeningFd(slope) == PyMax(FdFloor, RegressionFd(slope))

\* fractal_test.py
ExtractFractalDimension ==
    /\ hfd_pc = "call"
    /\ hfd_site = "extract_fractal_dimension"
    /\ hfd_value' = ScreeningFd(hfd_slope)
    /\ hfd_pc' = "returned"
    /\ UNCHANGED <<mainVars, roiVars, toolVars, hfd_site, hfd_slope>>

\* fractal.py: return slopes[0]
ComputeHiguchiFd ==
    /\ hfd_pc = "call"
    /\ hfd_site = "compute_higuchi_fd"
    /\ hfd_value' = hfd_slope
    /\ hfd_pc' = "returned"
    /\ UNCHANGED <<mainVars, roiVars, toolVars, hfd_site, hfd_slope>>

NextHiguchi ==
    \/ ExtractFractalDimension
    \/ ComputeHiguchiFd

SpecHiguchi == InitHiguchi /\ [][NextHiguchi]_vars

\* C20: the screening function never returns less than 1.0: a regression
\* result below 1.0 comes back as 1.0, one of at least 1.0 comes back
\* unchanged; the raw function returns the slope unchanged, whatever it is.
C20_ClampingPolicies ==
    hfd_pc = "returned" =>
        IF hfd_site = "extract_fractal_dimension"
           THEN LET fd == RegressionFd(hfd_slope)
                IN  /\ hfd_value >= FdFloor
                    /\ fd # NaN /\ fd < FdFloor => hfd_value = FdFloor
                    /\ fd # NaN /\ fd >= FdFloor => hfd_value = fd
           ELSE hfd_value = hfd_slope

\* a regression result of 0.5 has been floored by the screening function
C20_Witness ==
    /\ hfd_pc = "returned"
    /\ hfd_site = "extract_fractal_dimension"
    /\ hfd_slope = -50
    /\ hfd_value = FdFloor

(***************************************************************************)
(* Higuchi curve lengths: compute_higuchi_fd and compute_curve_length      *)
(***************************************************************************)
MaxN == 22
MaxKmax == 10

\* compute_higuchi_fd takes kmax from the caller; extract_fractal_dimension
\* fixes k_max = 10
InitCurve ==
    /\ NoPass
    /\ CurveAlone
    /\ hg_site \in {"compute_higuchi_fd", "compute_curve_length"}
    /\ hg_n \in 1 .. MaxN
    /\ hg_kmax \in IF hg_site = "compute_higuchi_fd" THEN 1 .. MaxKmax
                    ELSE {ScreeningKmax}
    /\ hg_k = 1
    /\ hg_m = 0
    /\ hg_lm = <<>>
    /\ hg_lk = <<>>
    /\ hg_reads = {}
    /\ hg_dens = {}
    /\ hg_pc = "loop"

\* int(x / k) truncates towards zero
TruncDiv(x, k) == IF x >= 0 THEN x \div k ELSE -((-x) \div k)

\* n_m = int((n - m) / k)
NM(n, m, k) == TruncDiv(n - m, k)

StepsInclusive(nm) == 1 .. nm

\* for i in range(1, n_m)
Steps(nm) == 1 .. nm - 1

\* ll += abs(ts[m + i * k] - ts[m + (i - 1) * k])
HiguchiDiffs(n, m, k) ==
    {<<m + (i - 1) * k, m + i * k>> : i \in Steps(NM(n, m, k))}

\* ll /= k;  lm[m] = ll * (n - 1) / (n_m * k)
HiguchiTerm(n, m, k) ==
    [diffs |-> HiguchiDiffs(n, m, k), num |-> n - 1, den |-> k * (NM(n, m, k) * k)]

\* (n-m-1)//k
Q(n, m, k) == (n - m - 1) \div k

\* indices = np.arange(0, (n-m-1)//k*k + 1, k);  subsequence = signal[indices + m]
SubsequenceIndices(n, m, k) == {m + i * k : i \in 0 .. Q(n, m, k)}

\* diff = np.abs(np.diff(subsequence))
CurveDiffs(n, m, k) ==
    {<<m + (i - 1) * k, m + i * k>> : i \in 1 .. Q(n, m, k)}

\* norm = ((n-1) / (((n-m-1)//k)*k)) * (k/1.0);  length += np.sum(diff) * norm
CurveTerm(n, m, k) ==
    [diffs |-> CurveDiffs(n, m, k), num |-> (n - 1) * k, den |-> Q(n, m, k) * k]

IndicesOf(diffs) == {d[1] : d \in diffs} \cup {d[2] : d \in diffs}

\* the loops move on: next m, after the last m the mean over the k offsets
\* and the next k, after the last k the regression and the return
CurveAdvance(lm) ==
    IF hg_m < hg_k - 1
       THEN /\ hg_m' = hg_m + 1
            /\ hg_lm' = lm
            /\ UNCHANGED <<hg_k, hg_lk>>
            /\ hg_pc' = "loop"
       ELSE /\ hg_lk' = (hg_k :> [terms |-> lm, div |-> hg_k]) @@ hg_lk
            /\ hg_lm' = <<>>
            /\ hg_m' = 0
            /\ hg_k' = IF hg_k < hg_kmax THEN hg_k + 1 ELSE hg_k
            /\ hg_pc' = IF hg_k < hg_kmax THEN "loop" ELSE "returned"

\* fractal.py: the body of  for m in range(k)  and, after the last m,
\* lk[k - 1] = np.mean(lm)
HiguchiOffset ==
    /\ hg_pc = "loop"
    /\ hg_site = "compute_higuchi_fd"
    /\ LET t == HiguchiTerm(hg_n, hg_m, hg_k)
           reads == IndicesOf(t.diffs)
       IN  /\ hg_reads' = hg_reads \cup reads
           /\ IF \E r \in reads : r >= hg_n
                 THEN /\ hg_pc' = "IndexError"
                      /\ UNCHANGED <<hg_k, hg_m, hg_lm, hg_lk, hg_dens>>
                 ELSE /\ hg_dens' = hg_dens \cup {NM(hg_n, hg_m, hg_k) * hg_k}
                      /\ IF NM(hg_n, hg_m, hg_k) * hg_k = 0
                            THEN /\ hg_pc' = "ZeroDivisionError"
                                 /\ UNCHANGED <<hg_k, hg_m, hg_lm, hg_lk>>
                            ELSE CurveAdvance((hg_m :> t) @@ hg_lm)
    /\ UNCHANGED <<notCurve, hg_site, hg_n, hg_kmax>>

\* fractal_test.py: the body of  for m in range(k)  and, after the last m,
\* return length / k.  k is a numpy integer: dividing by 0 gives inf or nan
\* and a warning, not an exception
CurveLengthOffset ==
    /\ hg_pc = "loop"
    /\ hg_site = "compute_curve_length"
    /\ LET t == CurveTerm(hg_n, hg_m, hg_k)
           reads == SubsequenceIndices(hg_n, hg_m, hg_k)
       IN  /\ hg_reads' = hg_reads \cup reads
           /\ IF \E r \in reads : r >= hg_n
                 THEN /\ hg_pc' = "IndexError"
                      /\ UNCHANGED <<hg_k, hg_m, hg_lm, hg_lk, hg_dens>>
                 ELSE /\ hg_dens' = hg_dens \cup {t.den}
                      /\ CurveAdvance((hg_m :> t) @@ hg_lm)
    /\ UNCHANGED <<notCurve, hg_site, hg_n, hg_kmax>>

NextCurve ==
    \/ HiguchiOffset
    \/ CurveLengthOffset

SpecCurve == InitCurve /\ [][NextCurve]_vars

\* Higuchi's L(m, k): all floor((N-m-1)/k) differences, times
\* (N-1) / (floor((N-m-1)/k) * k), divided by k
IsHiguchiLength(t, n, m, k) ==
    /\ t.diffs = {<<m + (i - 1) * k, m + i * k>> : i \in 1 .. (n - m - 1) \div k}
    /\ t.num * (((n - m - 1) \div k) * k * k) = (n - 1) * t.den

\* C21: every L(m, k) computed is Higuchi's curve length, and every L(k) is
\* the mean of L(m, k) over the k offsets (series long enough for every
\* offset to have a difference).
C21_CurveLength ==
    hg_n >= 2 * hg_kmax /\ hg_pc \in {"loop", "returned"} =>
        /\ \A m \in DOMAIN hg_lm : IsHiguchiLength(hg_lm[m], hg_n, m, hg_k)
        /\ \A k \in DOMAIN hg_lk :
              /\ hg_lk[k].div = k
              /\ DOMAIN hg_lk[k].terms = 0 .. k - 1
              /\ \A m \in 0 .. k - 1 : IsHiguchiLength(hg_lk[k].terms[m], hg_n, m, k)

(***************************************************************************)
(* compute_psd_fd                                                          *)
(***************************************************************************)
MaxPsdN == 60

\* lengths long enough for the cap of 256 to matter
LongSeries == {4 * WelchCap - 1, 4 * WelchCap, 4 * WelchCap + 4, 8 * WelchCap}

\* slopes of the log-log regression, in hundredths
PsdSlopes == {-300, -200, -100, 0, 100}

InitPsd ==
    /\ NoPass
    /\ PsdAlone
    /\ psd_n \in (1 .. MaxPsdN) \cup LongSeries
    /\ psd_nperseg = 0
    /\ psd_bins = 0
    /\ psd_value = 0
    /\ psd_pc = "call"

\* nperseg = min(256, len(ts) // 4)
Nperseg(n) == IF n \div 4 < WelchCap THEN n \div 4 ELSE WelchCap

\* signal.welch: nperseg must be a positive integer
WelchRaises(nperseg) == nperseg < 1

\* one-sided spectrum of nperseg points: bins 0 .. nperseg // 2, of which
\* freqs > 0 keeps all but bin 0
PositiveBins(nperseg) == nperseg \div 2

\* beta = -slopes[0];  fd = (5 - beta) / 2
PsdFd(slope) == (500 + slope) \div 2

PsdWelchRaises ==
    /\ psd_pc = "call"
    /\ WelchRaises(Nperseg(psd_n))
    /\ psd_nperseg' = Nperseg(psd_n)
    /\ psd_pc' = "ValueError"
    /\ UNCHANGED <<notPsd, psd_n, psd_bins, psd_value>>

ComputePsdFd ==
    /\ psd_pc = "call"
    /\ ~WelchRaises(Nperseg(psd_n))
    /\ psd_nperseg' = Nperseg(psd_n)
    /\ psd_bins' = PositiveBins(Nperseg(psd_n))
    /\ IF PositiveBins(Nperseg(psd_n)) > MinBins
          THEN \E slope \in PsdSlopes : psd_value' = PsdFd(slope)
          ELSE psd_value' = NaN
    /\ psd_pc' = "returned"
    /\ UNCHANGED <<notPsd, psd_n>>

NextPsd ==
    \/ PsdWelchRaises
    \/ ComputePsdFd

SpecPsd == InitPsd /\ [][NextPsd]_vars

\* C22: the Welch segment length is min(256, N/4); for every N that leaves
\* fewer than 6 positive-frequency bins the call returns not-a-number and
\* does not raise; with 6 or more it returns (5 - beta) / 2.
C22_PsdEstimate ==
    LET seg == IF psd_n \div 4 < WelchCap THEN psd_n \div 4 ELSE WelchCap
    IN  psd_pc # "call" =>
           /\ psd_nperseg = seg
           /\ seg \div 2 < MinBins + 1 => psd_pc = "returned" /\ psd_value = NaN
           /\ seg \div 2 >= MinBins + 1 =>
                 /\ psd_pc = "returned"
                 /\ \E slope \in PsdSlopes : 2 * psd_value = 500 + slope

(***************************************************************************)
(* The ALFF of one voxel: alff.py and alff_test.py                         *)
(***************************************************************************)
MaxNt == 8

\* band low = 0 takes in the DC bin; 300-400 mHz lies beyond Nyquist at tr = 2
SpectrumBands ==
    { [tr |-> 2, low |-> 10, high |-> 80],
      [tr |-> 2, low |-> 10, high |-> 200],
      [tr |-> 2, low |-> 0, high |-> 80],
      [tr |-> 2, low |-> 300, high |-> 400] }

\* bins of fft.rfft of nt points: 0 .. nt // 2
Bins(nt) == 0 .. nt \div 2

\* magnitudes, every one divisible by each possible number of bins
Magnitudes == {60, 120}

InitSpectrum ==
    /\ NoPass
    /\ SpectrumAlone
    /\ alff_site \in {"alff", "alff_test"}
    /\ alff_nt \in 2 .. MaxNt
    /\ alff_band \in SpectrumBands
    /\ fft_vals \in [Bins(alff_nt) -> Magnitudes]
    /\ freq_idx = {}
    /\ alff_value = 0
    /\ alff_pc = "call"

\* freq_bins = fft.rfftfreq(nt, d=tr): bin i is at i / (nt * tr) Hz;
\* freq_idx = np.where((freq_bins >= bandpass_low) & (freq_bins <= bandpass_high))
FreqIdx(nt, b) ==
    {i \in Bins(nt) : b.low * nt * b.tr <= 1000 * i /\ 1000 * i <= b.high * nt * b.tr}

\* np.sum(fft_vals[freq_idx]) / len(freq_idx); 0.0 / 0 is nan
BandMean(vals, bins) ==
    IF bins = {} THEN NaN ELSE SumOver(vals, bins) \div Cardinality(bins)

\* alff.py: alff_map[x, y, z] = np.sum(fft_vals[freq_idx]) / len(freq_idx)
AlffPostFftMask ==
    /\ alff_pc = "call"
    /\ alff_site = "alff"
    /\ freq_idx' = FreqIdx(alff_nt, alff_band)
    /\ alff_value' = BandMean(fft_vals, FreqIdx(alff_nt, alff_band))
    /\ alff_pc' = "stored"
    /\ UNCHANGED <<notSpectrum, alff_site, alff_nt, alff_band, fft_vals>>

\* alff_test.py: alff_map[x, y, z] = np.sum(fft_vals[1:]) on the filtered series
AlffPreFiltered ==
    /\ alff_pc = "call"
    /\ alff_site = "alff_test"
    /\ alff_value' = SumOver(fft_vals, Bins(alff_nt) \ {0})
    /\ alff_pc' = "stored"
    /\ UNCHANGED <<notSpectrum, alff_site, alff_nt, alff_band, fft_vals, freq_idx>>

NextSpectrum ==
    \/ AlffPostFftMask
    \/ AlffPreFiltered

SpecSpectrum == InitSpectrum /\ [][NextSpectrum]_vars

\* C23: ALFF is the sum of the FFT magnitudes without the DC bin: over the
\* bins with low <= f <= high when the band is cut after the FFT, over all
\* non-DC bins on a pre-filtered series; it is the sum, not a mean, and it
\* is a number also when no bin lies in the band.
C23_AlffIsBandSum ==
    LET inBand == {i \in Bins(alff_nt) \ {0} :
                      /\ alff_band.low * alff_nt * alff_band.tr <= 1000 * i
                      /\ 1000 * i <= alff_band.high * alff_nt * alff_band.tr}
        bins == IF alff_site = "alff" THEN inBand ELSE Bins(alff_nt) \ {0}
    IN  alff_pc = "stored" =>
           /\ alff_value # NaN
           /\ alff_value = SumOver(fft_vals, bins)

(***************************************************************************)
(* run_combined_pipeline.py: the expected fMRIPrep outputs                  *)
(***************************************************************************)
Absent == [exists |-> FALSE, size |-> 0]

File(n) == [exists |-> TRUE, size |-> n]

Complete ==
    [bold |-> File(MinBoldSize + 1), confounds |-> File(1), mask |-> File(1)]

NoOutputs == [bold |-> Absent, confounds |-> Absent, mask |-> Absent]

\* the three files of a (subject, task) pair: complete, or one file missing,
\* or one file at the size that is just not enough
PairStates ==
    { Complete,
      [Complete EXCEPT !.bold = Absent],
      [Complete EXCEPT !.bold = File(MinBoldSize)],
      [Complete EXCEPT !.confounds = Absent],
      [Complete EXCEPT !.confounds = File(0)],
      [Complete EXCEPT !.mask = Absent],
      [Complete EXCEPT !.mask = File(0)] }

Pairs(ss, ts) == {<<ss[i], ts[j]>> : i \in DOMAIN ss, j \in DOMAIN ts}

BoldValidInclusive(f) == f.exists /\ f.size >= MinBoldSize

\* bold_out.exists() and bold_out.stat().st_size > 1000000
BoldValid(f) == f.exists /\ f.size > MinBoldSize

\* confounds_out.exists() and confounds_out.stat().st_size > 0
NonEmpty(f) == f.exists /\ f.size > 0

PairValid(p) == BoldValid(p.bold) /\ NonEmpty(p.confounds) /\ NonEmpty(p.mask)

\* for task in tasks: ... else: all_outputs_exist = False; break
RECURSIVE CheckTasks(_, _, _)
CheckTasks(fs, s, ts) ==
    IF ts = <<>> THEN TRUE
    ELSE IF PairValid(fs[<<s, Head(ts)>>]) THEN CheckTasks(fs, s, Tail(ts))
    ELSE FALSE

\* for subject in subjects: ...; if not all_outputs_exist: break
RECURSIVE CheckFmriprepOutputsExist(_, _, _)
CheckFmriprepOutputsExist(fs, ss, ts) ==
    IF ss = <<>> THEN TRUE
    ELSE IF CheckTasks(fs, Head(ss), ts)
            THEN CheckFmriprepOutputsExist(fs, Tail(ss), ts)
    ELSE FALSE

Checked(b) == IF b THEN "True" ELSE "False"

(***************************************************************************)
(* run_combined_pipeline.py: main and its two stages                       *)
(***************************************************************************)
InitPipeline ==
    /\ NoPass
    /\ PipeAlone
    /\ args_force \in BOOLEAN
    /\ skip_given \in BOOLEAN
    /\ args_skip_fmriprep = skip_given
    /\ args_skip_features \in BOOLEAN
    /\ derivatives_exists \in BOOLEAN
    /\ layout_ok \in BOOLEAN
    /\ home_ok \in BOOLEAN
    /\ wrapper \in {"missing", "locked", "ok"}
    /\ subjects \in {<<>>, <<"01">>}
    /\ tasks = <<"rest">>
    /\ files \in [Pairs(subjects, tasks) ->
                     IF derivatives_exists THEN PairStates ELSE {NoOutputs}]
    /\ outputs_checked = "not called"
    /\ snakemake_cmd = {}
    /\ stage_log = <<>>
    /\ exit_status = -1
    /\ pl_pc = "check"

\* --auto_skip_fmriprep is store_true with default=True: it is always on
AutoSkipFmriprep == TRUE

AutoSkipIgnoresForce(force, skip) == AutoSkipFmriprep /\ ~skip

\* if args.auto_skip_fmriprep and not args.force and not args.skip_fmriprep
AutoSkipApplies(force, skip) == AutoSkipFmriprep /\ ~force /\ ~skip

\* main: the try block that looks for existing outputs; an exception of
\* BIDSLayout is logged and the run goes on
AutoSkip ==
    /\ pl_pc = "check"
    /\ IF layout_ok /\ AutoSkipApplies(args_force, args_skip_fmriprep)
             /\ derivatives_exists
          THEN /\ outputs_checked' =
                     Checked(CheckFmriprepOutputsExist(files, subjects, tasks))
               /\ args_skip_fmriprep' =
                     CheckFmriprepOutputsExist(files, subjects, tasks)
          ELSE UNCHANGED <<outputs_checked, args_skip_fmriprep>>
    /\ pl_pc' = "fmriprep"
    /\ UNCHANGED <<notPipe, args_force, skip_given, args_skip_features,
                   derivatives_exists, layout_ok, home_ok, wrapper, subjects,
                   tasks, files, snakemake_cmd, stage_log, exit_status>>

\* what subprocess.run(command, check=True) does in run_command
CommandOutcomes == {"0", "nonzero", "FileNotFoundError", "PermissionError"}

\* run_command returns False for these two
CommandFails(r) == r \in {"nonzero", "FileNotFoundError"}

\* any other exception is not caught by run_command
CommandRaises(r) == r = "PermissionError"

\* fix_permissions builds its strategies with Path.home()
FixPermissionsRaises(home) == ~home

\* cmd.extend([... "--rerun-incomplete", "--keep-going", ...]);
\* if force: cmd.append("-F")
SnakemakeFlags(force) ==
    {"--rerun-incomplete", "--keep-going"} \cup (IF force THEN {"-F"} ELSE {})

\* else: logging.info("Skipping fMRIPrep stage as requested.")
FmriprepSkipped ==
    /\ pl_pc = "fmriprep"
    /\ args_skip_fmriprep
    /\ stage_log' = Append(stage_log, "fmriprep skipped")
    /\ pl_pc' = "features"
    /\ UNCHANGED <<notPipe, args_force, skip_given, args_skip_fmriprep,
                   args_skip_features, derivatives_exists, layout_ok, home_ok,
                   wrapper, subjects, tasks, files, outputs_checked,
                   snakemake_cmd, exit_status>>

\* run_fmriprep_pipeline and what main does with its result
FmriprepRuns ==
    /\ pl_pc = "fmriprep"
    /\ ~args_skip_fmriprep
    /\ derivatives_exists' = TRUE
    /\ \E r \in CommandOutcomes :
          LET started == Append(stage_log, "fmriprep started")
              invoked == ~FixPermissionsRaises(home_ok) /\ layout_ok
                            /\ subjects # <<>>
          IN  /\ snakemake_cmd' = IF invoked THEN SnakemakeFlags(args_force)
                                    ELSE snakemake_cmd
              /\ IF FixPermissionsRaises(home_ok) \/ (invoked /\ CommandRaises(r))
                    THEN /\ stage_log' = Append(started, "fmriprep crashed")
                         /\ exit_status' = 1
                         /\ pl_pc' = "exited"
                    ELSE IF ~invoked \/ CommandFails(r)
                    THEN /\ stage_log' = Append(started, "fmriprep failed")
                         /\ exit_status' = 1
                         /\ pl_pc' = "exited"
                    ELSE /\ stage_log' = Append(started, "fmriprep succeeded")
                         /\ exit_status' = exit_status
                         /\ pl_pc' = "features"
    /\ UNCHANGED <<notPipe, args_force, skip_given, args_skip_fmriprep,
                   args_skip_features, layout_ok, home_ok, wrapper, subjects,
                   tasks, files, outputs_checked>>

\* else: logging.info("Skipping Feature Extraction stage as requested.")
FeaturesSkipped ==
    /\ pl_pc = "features"
    /\ args_skip_features
    /\ stage_log' = Append(stage_log, "features skipped")
    /\ pl_pc' = "finish"
    /\ UNCHANGED <<notPipe, args_force, skip_given, args_skip_fmriprep,
                   args_skip_features, derivatives_exists, layout_ok, home_ok,
                   wrapper, subjects, tasks, files, outputs_checked,
                   snakemake_cmd, exit_status>>

\* run_feature_extraction_pipeline and what main does with its result
FeaturesRun ==
    /\ pl_pc = "features"
    /\ ~args_skip_features
    /\ \E r \in {"0", "nonzero"} :
          LET started == Append(stage_log, "features started")
              invoked == wrapper # "missing" /\ derivatives_exists
              outcome == IF wrapper = "locked" THEN "PermissionError" ELSE r
          IN  IF invoked /\ (CommandRaises(outcome) \/
                    (~CommandFails(outcome) /\ FixPermissionsRaises(home_ok)))
                 THEN /\ stage_log' = Append(started, "features crashed")
                      /\ exit_status' = 1
                      /\ pl_pc' = "exited"
                 ELSE IF ~invoked \/ CommandFails(outcome)
                 THEN /\ stage_log' = Append(started, "features failed")
                      /\ exit_status' = exit_status
                      /\ pl_pc' = "finish"
                 ELSE /\ stage_log' = Append(started, "features succeeded")
                      /\ exit_status' = exit_status
                      /\ pl_pc' = "finish"
    /\ UNCHANGED <<notPipe, args_force, skip_given, args_skip_fmriprep,
                   args_skip_features, derivatives_exists, layout_ok, home_ok,
                   wrapper, subjects, tasks, files, outputs_checked,
                   snakemake_cmd>>

\* main returns: the process ends with status 0
Finish ==
    /\ pl_pc = "finish"
    /\ exit_status' = 0
    /\ pl_pc' = "exited"
    /\ UNCHANGED <<notPipe, args_force, skip_given, args_skip_fmriprep,
                   args_skip_features, derivatives_exists, layout_ok, home_ok,
                   wrapper, subjects, tasks, files, outputs_checked,
                   snakemake_cmd, stage_log>>

NextPipeline ==
    \/ AutoSkip
    \/ FmriprepSkipped
    \/ FmriprepRuns
    \/ FeaturesSkipped
    \/ FeaturesRun
    \/ Finish

SpecPipeline == InitPipeline /\ [][NextPipeline]_vars

Logged(ev) == \E i \in DOMAIN stage_log : stage_log[i] = ev

\* C24: the feature-extraction stage is started only after the fMRIPrep
\* stage succeeded or was skipped; when the fMRIPrep stage ran and did not
\* succeed the process ends with status 1 and the feature stage is never
\* started; a feature-extraction failure leaves the exit status at 0.
C24_StageOrder ==
    /\ \A i \in DOMAIN stage_log :
          stage_log[i] = "features started" =>
             \E j \in 1 .. i - 1 :
                stage_log[j] \in {"fmriprep succeeded", "fmriprep skipped"}
    /\ Logged("fmriprep failed") \/ Logged("fmriprep crashed") =>
          exit_status = 1 /\ ~Logged("features started")
    /\ Logged("features failed") \/ Logged("features crashed") =>
          exit_status # 1
    /\ pl_pc = "exited" /\ Logged("features failed") => exit_status = 0

AllOutputsPresent ==
    \A p \in Pairs(subjects, tasks) :
        /\ files[p].bold.exists /\ files[p].bold.size > MinBoldSize
        /\ files[p].confounds.exists /\ files[p].confounds.size > 0
        /\ files[p].mask.exists /\ files[p].mask.size > 0

C29_IndicesAndDenominators ==
    hg_site # "idle" /\ hg_n >= 2 * hg_kmax =>
       /\ hg_pc \notin {"IndexError", "ZeroDivisionError"}
       /\ hg_reads \subseteq 0 .. hg_n - 1
       /\ 0 \notin hg_dens

\* the shortest series the claim covers, at the largest scale in use: all
\* scales done, the last sample was read
C29_Witness ==
    /\ hg_pc = "returned"
    /\ hg_kmax = ScreeningKmax
    /\ hg_n = 2 * hg_kmax
    /\ hg_k = hg_kmax
    /\ hg_n - 1 \in hg_reads
    /\ hg_dens # {}

(***************************************************************************)
(* compute_reho of reho.py and reho_test.py                                *)
(***************************************************************************)
ValidNeighbourhoods == {7, 19, DefaultNeighbourhood}

InitReho ==
    /\ NoPass
    /\ RehoAlone
    /\ reho_site \in {"reho", "reho_test"}
    /\ mask_given \in BOOLEAN
    /\ cluster_size \in ValidNeighbourhoods \cup {5}
    /\ stale_temp \in BOOLEAN
    /\ temp_mask = FALSE
    /\ temp_exists = stale_temp
    /\ caller_mask_exists = mask_given
    /\ nneigh = 0
    /\ reho_end = "none"
    /\ reho_pc = "which"

\* subprocess.run(['which', '3dReHo'], check=True, ...);
\* except subprocess.CalledProcessError: sys.exit(1)
CheckAfni ==
    /\ reho_pc = "which"
    /\ \E found \in BOOLEAN :
          IF found THEN reho_pc' = "mask" /\ reho_end' = reho_end
          ELSE reho_pc' = "ended" /\ reho_end' = "exit 1"
    /\ UNCHANGED <<notReho, reho_site, mask_given, cluster_size, stale_temp,
                   temp_mask, temp_exists, caller_mask_exists, nneigh>>

\* how a failing create_mask_from_variance leaves compute_reho:
\* reho_test.py catches and exits, reho.py lets the exception through
MaskFailure(site) == IF site = "reho_test" THEN "exit 1" ELSE "Exception"

\* if not mask_file: temp_mask = ...; create_mask_from_variance(fmri_file, temp_mask)
CreateTempMask ==
    /\ reho_pc = "mask"
    /\ IF mask_given
          THEN /\ reho_pc' = "run"
               /\ UNCHANGED <<temp_mask, temp_exists, reho_end>>
          ELSE \E saved_ok \in BOOLEAN :
                  IF saved_ok
                     THEN /\ temp_mask' = TRUE
                          /\ temp_exists' = TRUE
                          /\ reho_pc' = "run"
                          /\ reho_end' = reho_end
                     ELSE /\ temp_mask' = TRUE
                          /\ temp_exists' = temp_exists
                          /\ reho_pc' = "ended"
                          /\ reho_end' = MaskFailure(reho_site)
    /\ UNCHANGED <<notReho, reho_site, mask_given, cluster_size, stale_temp,
                   caller_mask_exists, nneigh>>

\* subprocess.run(cmd, check=True, ...): exit code 0, a non-zero exit code
\* (CalledProcessError), or the command cannot be executed (OSError)
RehoOutcomes == {"0", "nonzero", "OSError"}

\* if temp_mask and os.path.exists(temp_mask): os.remove(temp_mask) -- in the
\* except subprocess.CalledProcessError branch and after the try
Cleanup(outcome, tmp, existed) ==
    IF outcome \in {"0", "nonzero"} /\ tmp THEN FALSE ELSE existed

\* if cluster_size not in [7, 19, 27]: cluster_size = 27
Neighbourhood(n) == IF n \in ValidNeighbourhoods THEN n ELSE DefaultNeighbourhood

Run3dReHo ==
    /\ reho_pc = "run"
    /\ nneigh' = Neighbourhood(cluster_size)
    /\ \E outcome \in RehoOutcomes :
          /\ temp_exists' = Cleanup(outcome, temp_mask, temp_exists)
          /\ reho_end' = CASE outcome = "0" -> "return"
                            [] outcome = "nonzero" -> "exit 1"
                            [] OTHER -> "OSError"
    /\ reho_pc' = "ended"
    /\ UNCHANGED <<notReho, reho_site, mask_given, cluster_size, stale_temp,
                   temp_mask, caller_mask_exists>>

NextReho ==
    \/ CheckAfni
    \/ CreateTempMask
    \/ Run3dReHo

SpecReho == InitReho /\ [][NextReho]_vars

\* C26: a temporary mask that compute_reho created no longer exists when
\* compute_reho has ended, however it ended (return, exit after 3dReHo failed
\* or could not be run); a mask supplied by the caller is never deleted.
C26_TempMaskRemoved ==
    /\ reho_pc = "ended" /\ nneigh # 0 /\ ~mask_given => ~temp_exists
    /\ mask_given => caller_mask_exists

(***************************************************************************)
(* fix_permissions of run_combined_pipeline.py                             *)
(***************************************************************************)
Strategies == <<"chmod u+rw", "sudo chmod u+rw", "sudo chmod 775", "sudo chown">>

\* what subprocess.run(strategy, check=False, ...) does: the exit code of the
\* command, or an exception (sudo or chmod not installed, undecodable output)
StrategyOutcomes == {"0", "1", "raises"}

InitPermissions ==
    /\ NoPass
    /\ PermAlone
    /\ perm_home_ok \in BOOLEAN
    /\ perm_outcomes \in [1 .. Len(Strategies) -> StrategyOutcomes]
    /\ perm_tried = <<>>
    /\ perm_result = "none"
    /\ perm_pc = "call"

\* strategies = [...]: the fourth entry evaluates Path.home().name, before
\* the loop and outside its try
BuildStrategies ==
    /\ perm_pc = "call"
    /\ IF FixPermissionsRaises(perm_home_ok)
          THEN perm_pc' = "ended" /\ perm_result' = "RuntimeError"
          ELSE perm_pc' = "loop" /\ perm_result' = perm_result
    /\ UNCHANGED <<notPerm, perm_home_ok, perm_outcomes, perm_tried>>

\* one iteration of "for strategy in strategies", and the return False after
\* the last one
TryStrategy ==
    /\ perm_pc = "loop"
    /\ LET i == Len(perm_tried) + 1
       IN  /\ perm_tried' = Append(perm_tried, Strategies[i])
           /\ IF perm_outcomes[i] = "0"
                 THEN perm_pc' = "ended" /\ perm_result' = "True"
                 ELSE IF i = Len(Strategies)
                         THEN perm_pc' = "ended" /\ perm_result' = "False"
                         ELSE perm_pc' = "loop" /\ perm_result' = perm_result
    /\ UNCHANGED <<notPerm, perm_home_ok, perm_outcomes>>

NextPermissions ==
    \/ BuildStrategies
    \/ TryStrategy

SpecPermissions == InitPermissions /\ [][NextPermissions]_vars

\* C27: fix_permissions runs its four strategies in the fixed order, returns
\* True at the first one that exits with code 0 and runs none after it, goes
\* on to the next after a non-zero exit or an exception, returns False only
\* when all four have failed, and never raises.
C27_StrategiesInOrder ==
    /\ perm_pc \in {"loop", "ended"} =>
          /\ Len(perm_tried) <= Len(Strategies)
          /\ perm_tried = SubSeq(Strategies, 1, Len(perm_tried))
          /\ \A i \in 1 .. Len(perm_tried) - 1 : perm_outcomes[i] # "0"
    /\ perm_pc = "ended" =>
          /\ perm_result \in {"True", "False"}
          /\ perm_result = "True" => perm_outcomes[Len(perm_tried)] = "0"
          /\ perm_result = "False" =>
                /\ Len(perm_tried) = Len(Strategies)
                /\ \A i \in 1 .. Len(Strategies) : perm_outcomes[i] # "0"

(***************************************************************************)
(* check_fmriprep_outputs_exist called on its own                          *)
(***************************************************************************)
MaxSubjects == 2

SubjectIds == <<"01", "02", "03">>

\* the subject lists ["01"], ["01", "02"], ... and the empty list
SubjectLists == {SubSeq(SubjectIds, 1, n) : n \in 0 .. MaxSubjects}

TaskLists == {<<>>, <<"rest">>, <<"rest", "nback">>}

InitOutputs ==
    /\ NoPass
    /\ PipeAlone
    /\ args_force = FALSE
    /\ skip_given = FALSE
    /\ args_skip_fmriprep = FALSE
    /\ args_skip_features = FALSE
    /\ derivatives_exists = TRUE
    /\ layout_ok = TRUE
    /\ home_ok = TRUE
    /\ wrapper = "idle"
    /\ subjects \in SubjectLists
    /\ tasks \in TaskLists
    /\ files \in [Pairs(subjects, tasks) -> PairStates \cup {NoOutputs}]
    /\ outputs_checked = "not called"
    /\ snakemake_cmd = {}
    /\ stage_log = <<>>
    /\ exit_status = -1
    /\ pl_pc = "outputs"

\* a call of check_fmriprep_outputs_exist(fmriprep_output_dir, subjects, tasks)
CheckOutputs ==
    /\ pl_pc = "outputs"
    /\ outputs_checked' =
          Checked(CheckFmriprepOutputsExist(files, subjects, tasks))
    /\ pl_pc' = "returned"
    /\ UNCHANGED <<notPipe, args_force, skip_given, args_skip_fmriprep,
                   args_skip_features, derivatives_exists, layout_ok, home_ok,
                   wrapper, subjects, tasks, files, snakemake_cmd, stage_log,
                   exit_status>>

NextOutputs == CheckOutputs

SpecOutputs == InitOutputs /\ [][NextOutputs]_vars

\* C28: check_fmriprep_outputs_exist returns True if and only if for every
\* (subject, task) pair of the lists the BOLD file exists with more than
\* 1,000,000 bytes and the confounds and mask files exist with more than 0
\* bytes; in particular it returns True for an empty subject or task list.
C28_TrueIffAllPairsValid ==
    pl_pc = "returned" =>
       /\ outputs_checked = "True" <=> AllOutputsPresent
       /\ outputs_checked = "False" <=> ~AllOutputsPresent
       /\ subjects = <<>> \/ tasks = <<>> => outputs_checked = "True"

\* the only flaw is in the last pair: its BOLD file has exactly 1,000,000 bytes
C28_Witness ==
    /\ pl_pc = "returned"
    /\ outputs_checked = "False"
    /\ Len(subjects) = 2 /\ Len(tasks) = 2
    /\ files[<<subjects[2], tasks[2]>>] = [Complete EXCEPT !.bold = File(MinBoldSize)]
    /\ \A p \in Pairs(subjects, tasks) \ {<<subjects[2], tasks[2]>>} :
          files[p] = Complete

(***************************************************************************)
(* The processed-voxel counter of compute_fractal and compute_hurst        *)
(***************************************************************************)
\* the masked voxels whose standard deviation is above 1e-6
VaryingMasked == {v \in MaskedSet : ~StdLeEps(data[v])}

\* the estimator was attempted on a voxel in this step
EstimatorAttempted ==
    /\ DOMAIN calls' = DOMAIN calls
    /\ \E v \in DOMAIN calls : calls'[v] = calls[v] + 1

C30_CounterStep ==
    prog \in TryProgs =>
        IF EstimatorAttempted
           THEN processed_voxels' = processed_voxels + 1
           ELSE processed_voxels' = processed_voxels

C30_CounterBounded ==
    prog \in TryProgs /\ MaskLoaded /\ ~ShapeMismatch(mask) =>
        /\ processed_voxels <= CountTrue(mask)
        /\ processed_voxels = Cardinality(VisitedSet \cap VaryingMasked)
        /\ pc \in {"post", "done"} =>
              /\ processed_voxels = Cardinality(VaryingMasked)
              /\ processed_voxels = CountTrue(mask) <=> VaryingMasked = MaskedSet
        /\ \A i \in 1 .. Len(reports) :
              reports[i] = CountTrue(mask) => VaryingMasked = MaskedSet

\* C30: in compute_fractal and compute_hurst the processed-voxel counter never
\* exceeds the number of masked voxels, goes up by exactly one in a step that
\* attempts the estimator (whether it succeeds or raises) and is unchanged by
\* every other step, a skipped constant voxel included; after the loop it is
\* the number of masked voxels with standard deviation above 1e-6, so 100%
\* is reported only if no masked voxel was skipped.
C30_ProcessedCounter == [][C30_CounterStep]_vars /\ []C30_CounterBounded

\* a finished pass over two masked voxels: one was skipped as constant, on
\* the other the estimator raised and was counted
C30_Witness ==
    /\ pc = "done"
    /\ prog \in TryProgs
    /\ CountTrue(mask) = 2
    /\ processed_voxels = 1
    /\ \E v \in raisedAt : calls[v] = 1
    /\ \E v \in VisitedSet : StdLeEps(data[v]) /\ calls[v] = 0

Spec == Init /\ [][Next]_vars

====
